---- MODULE Spec2Model ----
(***************************************************************************)
(* SwissTravelPlanner: the POI catalog (data_store.py), the day selector   *)
(* (poi_selection.py), the trip planner state machine (route_planner.py)   *)
(* and the hard-constraint part of the evaluator (evaluator.py).           *)
(*                                                                         *)
(* Numbers: minutes and kilometres are integers, preference weights are    *)
(* integers (the code's floats scaled by a common factor); Inf stands for  *)
(* math.inf.                                                               *)
(***************************************************************************)
EXTENDS Integers, Sequences, FiniteSets, TLC

VARIABLES
    sel,        \* a call of select_pois_for_day / has_preferred_pois: arguments and result
    cat,        \* a call of TravelDataStore.pois_for_city: arguments and result
    datastore,  \* TravelDataStore._pois_by_city: poi city -> POIs in catalog order
    planner,    \* RoutePlanner: the distance file it is given, _graph, _shortest_km, _shortest_minutes
    call,       \* the arguments of the plan_route call
    frame,      \* the locals of plan_route, its position (pc) and its result
    ev          \* a call of evaluate_itinerary / _check_no_revisit: arguments and result

vars == <<sel, cat, datastore, planner, call, frame, ev>>

\* ------------------------------------------------------------------ constants
CATEGORIES == <<"nature", "culture", "food", "sport">>
SEASONS == <<"spring", "summer", "autumn", "winter">>
_STOPWORDS == {"the", "of", "and", "on", "in", "at", "lake", "mountain", "mount",
               "top", "adventure", "tour", "experience", "view", "platform",
               "glacier", "swiss", "switzerland"}
LANDMARKS == {"jungfraujoch", "lucerne", "geneva", "zermatt"}
max_tu == 8
TARGET_MIN_TU == 6
MISSING_SEASON_SCORE == 5

\* Python's None for a season argument, and for a missing season priority.
None == "None"
NoPriority == -1

\* ------------------------------------------------------------------ helpers
Range(s) == {s[i] : i \in DOMAIN s}

RECURSIVE SumSeq(_)
SumSeq(s) == IF s = <<>> THEN 0 ELSE Head(s) + SumSeq(Tail(s))

RECURSIVE FilterSeq(_, _)
\* the subsequence of s whose elements are in the set keep, order preserved
FilterSeq(s, keep) ==
    IF s = <<>> THEN <<>>
    ELSE IF Head(s) \in keep THEN <<Head(s)>> \o FilterSeq(Tail(s), keep)
         ELSE FilterSeq(Tail(s), keep)

RECURSIVE FlattenSeq(_)
FlattenSeq(ss) == IF ss = <<>> THEN <<>> ELSE Head(ss) \o FlattenSeq(Tail(ss))

IndexOf(s, x) == CHOOSE i \in DOMAIN s : s[i] = x /\ \A j \in 1..(i - 1) : s[j] # x

\* ------------------------------------------------------------------ data_store.py
\* A POI is a record
\*   [identifier, name, needed_time, seasons, labels]
\* name: the set of lower-cased alphanumeric tokens of the name;
\* needed_time: the set of marks ("1","2","4","8","less","<") occurring in the
\*   needed-time title, {} for a missing title;
\* seasons: the POI's season list without duplicates (season_order is its index map);
\* labels: the set of categories whose label is true.

has_label(poi, category) == category \in poi.labels

season_priority(poi, season) ==
    IF season = None THEN 0
    ELSE IF season \in Range(poi.seasons) THEN IndexOf(poi.seasons, season) - 1
    ELSE NoPriority

\* a catalog that forgets to sort the matching POIs by priority
SortByPriority_unsorted(candidates, season) ==
    FilterSeq(candidates, {poi \in Range(candidates) : season_priority(poi, season) # NoPriority})

\* list.sort(key=priority) is stable: the POIs of priority 0 in catalog order,
\* then those of priority 1, ...
SortByPriority(candidates, season) ==
    FlattenSeq([p \in 1..Len(SEASONS) |->
        FilterSeq(candidates, {poi \in Range(candidates) : season_priority(poi, season) = p - 1})])

pois_for_city(candidates, season) ==
    IF candidates = <<>> \/ season = None THEN candidates
    ELSE SortByPriority(candidates, season)
         \o FilterSeq(candidates, {poi \in Range(candidates) : season_priority(poi, season) = NoPriority})

\* ------------------------------------------------------------------ poi_selection.py
_name_tokens(name) == name \ _STOPWORDS

_are_similar(poi_a, poi_b) ==
    LET tokens_a == _name_tokens(poi_a.name)
        tokens_b == _name_tokens(poi_b.name)
        overlap == tokens_a \cap tokens_b
    IN  /\ tokens_a # {}
        /\ tokens_b # {}
        /\ overlap # {}
        /\ \/ Cardinality(overlap) >= 2
           \/ Cardinality(overlap) = 1 /\ overlap \subseteq LANDMARKS

_primary_label(poi) ==
    IF \E i \in DOMAIN CATEGORIES : has_label(poi, CATEGORIES[i])
    THEN CATEGORIES[CHOOSE i \in DOMAIN CATEGORIES :
                        /\ has_label(poi, CATEGORIES[i])
                        /\ \A j \in 1..(i - 1) : ~has_label(poi, CATEGORIES[j])]
    ELSE None

_activity_time_units(poi) ==
    LET needed == poi.needed_time
    IN  IF needed = {} THEN 2
        ELSE IF {"4", "8"} \subseteq needed THEN 8
        ELSE IF {"2", "4"} \subseteq needed THEN 4
        ELSE IF {"1", "2"} \subseteq needed THEN 2
        ELSE IF "less" \in needed \/ "<" \in needed THEN 1
        ELSE 2

_season_score(poi, season) ==
    IF season = None THEN 0
    ELSE IF season_priority(poi, season) = NoPriority THEN MISSING_SEASON_SCORE
    ELSE season_priority(poi, season)

_is_in_season(poi, season) ==
    IF season = None THEN TRUE ELSE season_priority(poi, season) # NoPriority

\* a filter that takes a weight of zero for a positive one
positive_categories_nonnegative(preference_weights) ==
    {category \in DOMAIN preference_weights : preference_weights[category] >= 0}

\* preference_weights is a function from some category names to integers
positive_categories(preference_weights) ==
    {category \in DOMAIN preference_weights : preference_weights[category] > 0}

\* a filter that blocks only the categories listed with weight zero
zero_categories_listed_only(preference_weights) ==
    {category \in Range(CATEGORIES) :
        category \in DOMAIN preference_weights /\ preference_weights[category] = 0}

zero_categories(preference_weights) ==
    {category \in Range(CATEGORIES) : category \notin positive_categories(preference_weights)}

\* _filter_pois_by_preferences raises ValueError exactly when this holds
NoPositiveWeight(preference_weights) == positive_categories(preference_weights) = {}

_filter_pois_by_preferences(pois, preference_weights) ==
    FilterSeq(pois, {poi \in Range(pois) :
        /\ \E category \in positive_categories(preference_weights) : has_label(poi, category)
        /\ ~\E category \in zero_categories(preference_weights) : has_label(poi, category)})

has_preferred_pois(pois, preference_weights, season) ==
    LET filtered == _filter_pois_by_preferences(pois, preference_weights)
    IN  IF season = None THEN filtered # <<>>
        ELSE \E poi \in Range(filtered) : _is_in_season(poi, season)

weight_of(preference_weights, label) ==
    IF label \in DOMAIN preference_weights THEN preference_weights[label] ELSE 0

TuOf(combo) == SumSeq([i \in DOMAIN combo |-> _activity_time_units(combo[i])])
PrefOf(combo, preference_weights) ==
    SumSeq([i \in DOMAIN combo |-> weight_of(preference_weights, _primary_label(combo[i]))])
SeasonSumOf(combo, season) == SumSeq([i \in DOMAIN combo |-> _season_score(combo[i], season)])

RECURSIVE dfs_no_similarity_check(_, _, _, _, _)
\* a search that skips the similarity test
dfs_no_similarity_check(activity_info, remaining_tu, start_idx, chosen, used_tu) ==
    (IF chosen # <<>> THEN {chosen} ELSE {})
    \cup UNION {
        LET poi == activity_info[i]
            tu == _activity_time_units(poi)
        IN  IF tu > remaining_tu - used_tu THEN {}
            ELSE dfs_no_similarity_check(activity_info, remaining_tu, i + 1,
                                         Append(chosen, poi), used_tu + tu)
        : i \in start_idx..Len(activity_info)}

RECURSIVE dfs(_, _, _, _, _)
\* the combos appended by dfs(start_idx, chosen, used_tu, ...) and its recursive calls
dfs(activity_info, remaining_tu, start_idx, chosen, used_tu) ==
    (IF chosen # <<>> THEN {chosen} ELSE {})
    \cup UNION {
        LET poi == activity_info[i]
            tu == _activity_time_units(poi)
        IN  IF tu > remaining_tu - used_tu THEN {}
            ELSE IF \E k \in DOMAIN chosen : _are_similar(poi, chosen[k]) THEN {}
            ELSE dfs(activity_info, remaining_tu, i + 1, Append(chosen, poi), used_tu + tu)
        : i \in start_idx..Len(activity_info)}

\* a key that leaves the preference score out of the ranking
combo_key_no_preference(combo, travel_tu, preference_weights, season) ==
    LET total == travel_tu + TuOf(combo)
    IN  << IF TARGET_MIN_TU <= total /\ total <= max_tu THEN 1 ELSE 0,
           total,
           0,
           0 - SeasonSumOf(combo, season) >>

\* combo_key as a 4-tuple; KeyGreater is Python's tuple comparison key_a > key_b
combo_key(combo, travel_tu, preference_weights, season) ==
    LET total == travel_tu + TuOf(combo)
    IN  << IF TARGET_MIN_TU <= total /\ total <= max_tu THEN 1 ELSE 0,
           total,
           PrefOf(combo, preference_weights),
           0 - SeasonSumOf(combo, season) >>

KeyGreater(a, b) ==
    \E i \in 1..4 : a[i] > b[i] /\ \A j \in 1..(i - 1) : a[j] = b[j]

activity_info_of(pois, preference_weights, season) ==
    LET eligible == _filter_pois_by_preferences(pois, preference_weights)
        raw_info == FilterSeq(eligible, {poi \in Range(eligible) : _primary_label(poi) # None})
        season_info == FilterSeq(raw_info, {poi \in Range(raw_info) : _is_in_season(poi, season)})
    IN  IF season # None /\ season_info # <<>> THEN season_info ELSE raw_info

combos_of(pois, preference_weights, travel_tu, season) ==
    LET activity_info == activity_info_of(pois, preference_weights, season)
        remaining_tu == max_tu - travel_tu
    IN  {<<>>} \cup (IF remaining_tu > 0 THEN dfs(activity_info, remaining_tu, 1, <<>>, 0) ELSE {})

\* the set best_items of select_pois_for_day: rng.choice returns any of them.
\* Defined when the weights have a positive entry (otherwise the call raises).
select_pois_for_day(pois, preference_weights, travel_tu, season) ==
    LET activity_info == activity_info_of(pois, preference_weights, season)
        combos == combos_of(pois, preference_weights, travel_tu, season)
    IN  IF activity_info = <<>> THEN {<<>>}
        ELSE IF travel_tu > max_tu THEN {<<>>}
        ELSE {c \in combos : \A d \in combos :
                ~KeyGreater(combo_key(d, travel_tu, preference_weights, season),
                            combo_key(c, travel_tu, preference_weights, season))}

\* ------------------------------------------------------------------ route_planner.py
DAILY_TRAVEL_LIMIT_MINUTES == 240
LONG_TRAVEL_THRESHOLD_MINUTES == 180
MINUTES_PER_TU == 60
Inf == 1000000
\* a JSON null / missing value in a distance payload
Null == -1
NoCity == "NoCity"

\* the entries of CITY_DISTANCE_TO_POI for the cities the model's graphs use
CITY_DISTANCE_TO_POI ==
    [c \in {"Bern, Switzerland", "Geneva, Switzerland", "Interlaken, Switzerland",
            "Lausanne, Switzerland", "Lucerne, Switzerland", "Montreux, Switzerland",
            "Zurich, Switzerland"} |->
        CASE c = "Bern, Switzerland" -> "bern"
          [] c = "Geneva, Switzerland" -> "geneva"
          [] c = "Interlaken, Switzerland" -> "interlaken"
          [] c = "Lausanne, Switzerland" -> "lausanne"
          [] c = "Lucerne, Switzerland" -> "luzern"
          [] c = "Montreux, Switzerland" -> "montreux"
          [] c = "Zurich, Switzerland" -> "zurich"]

DistanceNames == DOMAIN CITY_DISTANCE_TO_POI
PoiCities == {CITY_DISTANCE_TO_POI[c] : c \in DistanceNames}

\* distance_name.split(",")[0]
_display_name(distance_name) ==
    CASE distance_name = "Bern, Switzerland" -> "Bern"
      [] distance_name = "Geneva, Switzerland" -> "Geneva"
      [] distance_name = "Interlaken, Switzerland" -> "Interlaken"
      [] distance_name = "Lausanne, Switzerland" -> "Lausanne"
      [] distance_name = "Lucerne, Switzerland" -> "Lucerne"
      [] distance_name = "Montreux, Switzerland" -> "Montreux"
      [] distance_name = "Zurich, Switzerland" -> "Zurich"
      [] OTHER -> ""

\* NFKD + ascii + strip + lower, on the names the model passes in
_normalise_name(value) ==
    CASE value = "Bern, Switzerland" -> "bern, switzerland"
      [] value = "Geneva, Switzerland" -> "geneva, switzerland"
      [] value = "Interlaken, Switzerland" -> "interlaken, switzerland"
      [] value = "Lausanne, Switzerland" -> "lausanne, switzerland"
      [] value = "Lucerne, Switzerland" -> "lucerne, switzerland"
      [] value = "Montreux, Switzerland" -> "montreux, switzerland"
      [] value = "Zurich, Switzerland" -> "zurich, switzerland"
      [] value = "Bern" -> "bern"
      [] value = "Geneva" -> "geneva"
      [] value = "Interlaken" -> "interlaken"
      [] value = "Lausanne" -> "lausanne"
      [] value = "Lucerne" -> "lucerne"
      [] value = "Montreux" -> "montreux"
      [] value = "Zurich" -> "zurich"
      [] value = " Zuerich " -> "zuerich"
      [] value = "Luzern" -> "luzern"
      [] OTHER -> value

\* _build_aliases: the normalised aliases of the modelled cities
\* (poi name, distance name, distance name without ", Switzerland", EXTRA_CITY_ALIASES)
_alias_to_distance ==
    [a \in {CITY_DISTANCE_TO_POI[c] : c \in DistanceNames}
           \cup {_normalise_name(c) : c \in DistanceNames}
           \cup {_normalise_name(_display_name(c)) : c \in DistanceNames}
           \cup {"zuerich"} |->
        IF a = "zuerich" THEN "Zurich, Switzerland"
        ELSE CHOOSE c \in DistanceNames :
                \/ a = CITY_DISTANCE_TO_POI[c]
                \/ a = _normalise_name(c)
                \/ a = _normalise_name(_display_name(c))]

KnownCity(name) == _normalise_name(name) \in DOMAIN _alias_to_distance

\* _resolve_city(name)[0]; raises ValueError when ~KnownCity(name)
_resolve_city(name) == _alias_to_distance[_normalise_name(name)]

\* float(payload.get(key) or math.inf): null and 0 both load as infinity
LoadValue(v) == IF v = Null \/ v = 0 THEN Inf ELSE v

\* data: origin -> dest -> [distance_km, duration_minutes, status]
_load_distance_graph(data) ==
    [origin \in DOMAIN data |->
        [dest \in DOMAIN data[origin] |->
            [distance_km |-> LoadValue(data[origin][dest].distance_km),
             duration_minutes |-> LoadValue(data[origin][dest].duration_minutes)]]]

Min(a, b) == IF a <= b THEN a ELSE b
Max(a, b) == IF a >= b THEN a ELSE b

\* math.ceil(a / b) for a >= 0, b > 0
CeilDiv(a, b) == (a + b - 1) \div b

RECURSIVE DijkstraLoop(_, _, _, _)
\* The heap loop: settle the unsettled city of least tentative distance and relax
\* its finite outgoing edges, until no reachable unsettled city is left.
DijkstraLoop(graph, weight_key, distances, settled) ==
    LET open == {c \in DOMAIN distances : c \notin settled /\ distances[c] < Inf}
    IN  IF open = {} THEN distances
        ELSE LET city == CHOOSE c \in open : \A d \in open : distances[c] <= distances[d]
                 relaxed == [n \in DOMAIN distances |->
                    IF /\ n \in DOMAIN graph[city]
                       /\ graph[city][n][weight_key] < Inf
                       /\ distances[city] + graph[city][n][weight_key] < distances[n]
                    THEN distances[city] + graph[city][n][weight_key]
                    ELSE distances[n]]
             IN  DijkstraLoop(graph, weight_key, relaxed, settled \cup {city})

\* a search that stops at the origin's direct neighbours
_dijkstra_direct_only(graph, origin, weight_key) ==
    [c \in DOMAIN graph |->
        IF c = origin THEN 0
        ELSE IF c \in DOMAIN graph[origin] THEN graph[origin][c][weight_key]
        ELSE Inf]

_dijkstra(graph, origin, weight_key) ==
    DijkstraLoop(graph, weight_key, [c \in DOMAIN graph |-> IF c = origin THEN 0 ELSE Inf], {})

_compute_shortest_paths(graph, weight_key) ==
    [origin \in DOMAIN graph |-> _dijkstra(graph, origin, weight_key)]

\* RoutePlanner.__init__
NewRoutePlanner(data) ==
    LET graph == _load_distance_graph(data)
    IN  [distance_path |-> data,
         _graph |-> graph,
         _shortest_km |-> _compute_shortest_paths(graph, "distance_km"),
         _shortest_minutes |-> _compute_shortest_paths(graph, "duration_minutes")]

_travel_time_units(minutes) ==
    IF minutes <= 0 THEN 0 ELSE Max(1, CeilDiv(minutes, MINUTES_PER_TU))

\* a dwell rule whose thresholds are strict
required_end_stay_days_strict(same_start_end, num_days) ==
    IF same_start_end THEN 1
    ELSE IF num_days > 15 THEN 3
    ELSE IF num_days > 7 THEN 2
    ELSE 1

required_end_stay_days_of(same_start_end, num_days) ==
    IF same_start_end THEN 1
    ELSE IF num_days >= 15 THEN 3
    ELSE IF num_days >= 7 THEN 2
    ELSE 1

\* 1 if num_days <= 10 else min(2, max(1, ceil(num_days / 10)))
target_stay_days_of(num_days) ==
    IF num_days <= 10 THEN 1 ELSE Min(2, Max(1, CeilDiv(num_days, 10)))

\* a planner that takes every city to be within reach of the end in no time
min_days_to_end_zero(pl, end_distance) == [city \in DOMAIN pl._graph |-> 0]

min_days_to_end_of(pl, end_distance) ==
    [city \in DOMAIN pl._graph |->
        IF pl._shortest_minutes[city][end_distance] >= Inf THEN Inf
        ELSE CeilDiv(pl._shortest_minutes[city][end_distance], DAILY_TRAVEL_LIMIT_MINUTES)]

distance_to_end_of(pl, end_distance) ==
    [city \in DOMAIN pl._graph |-> pl._shortest_km[city][end_distance]]

\* one bucket for every leg within the daily limit
thresholds_flat == <<DAILY_TRAVEL_LIMIT_MINUTES, DAILY_TRAVEL_LIMIT_MINUTES, DAILY_TRAVEL_LIMIT_MINUTES, DAILY_TRAVEL_LIMIT_MINUTES>>

thresholds == <<60, 120, 180, DAILY_TRAVEL_LIMIT_MINUTES>>

\* a rule that lets a day of 5 TU stand
LOW_TU_THRESHOLD_lax == 6 - 1

\* line 278: total_daily_tu < 6
LOW_TU_THRESHOLD == 6

\* a planner that does not exclude visited cities
AlreadyVisited_never(dest, visited_set, end_city) == FALSE

\* line 423: a visited city is skipped unless it is the end city
AlreadyVisited(dest, visited_set, end_city) == dest \in visited_set /\ dest # end_city

\* Python's tuple comparison a < b on the 4-tuple scores
ScoreLess(a, b) == \E i \in 1..4 : a[i] < b[i] /\ \A j \in 1..(i - 1) : a[j] = b[j]

\* The candidates (dest, duration) that pass every `continue` of the loop over
\* self._graph[current_city].items()
next_city_candidates(pl, current_city, day_index, num_days, end_city, remaining_days, min_days_to_end, distance_to_end, visited_cities, available_pois, preference_weights, season, required_end_stay_days) ==
    LET remaining_days_after_move == remaining_days - 1
    IN  {dest \in DOMAIN pl._graph[current_city] :
            /\ dest # current_city
            /\ pl._graph[current_city][dest].duration_minutes <= DAILY_TRAVEL_LIMIT_MINUTES
            /\ ~AlreadyVisited(dest, visited_cities, end_city)
            /\ dest \in DOMAIN CITY_DISTANCE_TO_POI
            /\ has_preferred_pois(available_pois[CITY_DISTANCE_TO_POI[dest]], preference_weights, season)
            /\ IF dest = end_city
               THEN /\ day_index = num_days - required_end_stay_days
                    /\ remaining_days_after_move = Max(0, required_end_stay_days - 1)
               ELSE remaining_days_after_move - Max(0, required_end_stay_days - 1) >= min_days_to_end[dest]
            /\ (dest = end_city \/ distance_to_end[dest] < Inf)}

\* the set `best` from which rng.choice draws; {} when the function returns None
_choose_next_city(pl, current_city, previous_city, day_index, num_days, end_city, remaining_days, visit_counts, min_days_to_end, distance_to_end, visited_cities, available_pois, preference_weights, season, required_end_stay_days) ==
    LET candidates == next_city_candidates(pl, current_city, day_index, num_days, end_city,
                          remaining_days, min_days_to_end, distance_to_end, visited_cities,
                          available_pois, preference_weights, season, required_end_stay_days)
        duration(dest) == pl._graph[current_city][dest].duration_minutes
        score(dest) ==
            << visit_counts[dest],
               IF previous_city # NoCity /\ dest = previous_city THEN 1 ELSE 0,
               IF remaining_days - 1 > 3 THEN 0 - distance_to_end[dest] ELSE distance_to_end[dest],
               duration(dest) >>
        bucket(k) == {dest \in candidates :
                        /\ duration(dest) <= thresholds[k]
                        /\ \A j \in 1..(k - 1) : duration(dest) > thresholds[j]}
    IN  IF candidates = {} THEN {}
        ELSE LET k == CHOOSE i \in DOMAIN thresholds :
                          bucket(i) # {} /\ \A j \in 1..(i - 1) : bucket(j) = {}
                 best == {dest \in bucket(k) : \A other \in bucket(k) : ~ScoreLess(score(other), score(dest))}
             IN  {<<dest, duration(dest)>> : dest \in best}

\* available_pois[city] without the POIs whose identifier was selected
\* a run that leaves the chosen POIs in the pool
RemoveSelected_keeps_all(pool, pois) == pool

\* lines 199-203 and 339-343: the pool without the POIs whose identifier was selected
RemoveSelected(pool, pois) ==
    FilterSeq(pool, {poi \in Range(pool) : \A q \in Range(pois) : q.identifier # poi.identifier})

\* an arrival selection that does not charge the travel leg
SelectAtArrival_free(pool, preference_weights, travel_minutes, season) ==
    select_pois_for_day(pool, preference_weights, 0, season)

\* lines 327-334: the arrival city's selection of a low-TU rewritten day
SelectAtArrival(pool, preference_weights, travel_minutes, season) ==
    select_pois_for_day(pool, preference_weights, _travel_time_units(travel_minutes), season)

\* ------------------------------------------------------------------ plan_route
ERR_DAYS == "Number of travel days must be positive."
ERR_UNKNOWN == "Unknown city."
ERR_KEY == "KeyError"
ERR_NO_PATH == "No travel path between start and end."
ERR_TWO_DAYS == "At least two days are required to travel between different cities."
ERR_NOT_ENOUGH == "Not enough days to reach the destination under the travel limit."
ERR_WEIGHTS == "Preference weights must contain at least one positive entry."
ERR_NOT_REACHED == "Itinerary did not reach the destination on the final day."
ERR_NO_NEXT == "Unable to find a feasible next city under the constraints."

NoFrame ==
    [pc |-> "idle", error |-> "", result |-> <<>>, day_index |-> 0,
     end_distance |-> NoCity, same_start_end |-> FALSE,
     min_days_to_end |-> <<>>, distance_to_end |-> <<>>,
     required_end_stay_days |-> 0, target_stay_days |-> 0,
     available_pois |-> <<>>, visit_counts |-> <<>>, extra_stay_used |-> <<>>,
     visited_cities |-> {}, current_distance_city |-> NoCity, current_poi_city |-> NoCity,
     previous_distance_city |-> NoCity, travel_from_distance |-> NoCity,
     travel_minutes_prev |-> 0, day_plans |-> <<>>]

Raise(f, message) == [f EXCEPT !.pc = "raised", !.error = message]

\* lines 111-173: validation and set-up before the day loop
PlanSetup(pl, store, c, f) ==
    IF c.num_days <= 0 THEN Raise(f, ERR_DAYS)
    ELSE IF ~KnownCity(c.start_city) \/ ~KnownCity(c.end_city) THEN Raise(f, ERR_UNKNOWN)
    ELSE
    LET start_distance == _resolve_city(c.start_city)
        end_distance == _resolve_city(c.end_city)
        same_start_end == start_distance = end_distance
    IN  IF start_distance \notin DOMAIN pl._graph THEN Raise(f, ERR_KEY)
        ELSE IF end_distance \notin DOMAIN pl._graph \/ pl._shortest_km[start_distance][end_distance] >= Inf
             THEN Raise(f, ERR_NO_PATH)
        ELSE IF start_distance # end_distance /\ c.num_days < 2 THEN Raise(f, ERR_TWO_DAYS)
        ELSE
        LET min_days_to_end == min_days_to_end_of(pl, end_distance)
            required_end_stay_days == required_end_stay_days_of(same_start_end, c.num_days)
        IN  IF min_days_to_end[start_distance] > Max(0, c.num_days - required_end_stay_days)
            THEN Raise(f, ERR_NOT_ENOUGH)
            ELSE [f EXCEPT
                    !.pc = "loop",
                    !.day_index = 1,
                    !.end_distance = end_distance,
                    !.same_start_end = same_start_end,
                    !.min_days_to_end = min_days_to_end,
                    !.distance_to_end = distance_to_end_of(pl, end_distance),
                    !.required_end_stay_days = required_end_stay_days,
                    !.target_stay_days = target_stay_days_of(c.num_days),
                    !.available_pois = [poi_city \in PoiCities |->
                        pois_for_city(IF poi_city \in DOMAIN store THEN store[poi_city] ELSE <<>>,
                                      c.season)],
                    !.visit_counts = [city \in DOMAIN pl._graph |-> 0],
                    !.extra_stay_used = [city \in DOMAIN pl._graph |-> FALSE],
                    !.visited_cities = {},
                    !.current_distance_city = start_distance,
                    !.current_poi_city = CITY_DISTANCE_TO_POI[start_distance],
                    !.previous_distance_city = NoCity,
                    !.travel_from_distance = NoCity,
                    !.travel_minutes_prev = 0,
                    !.day_plans = <<>>]

NewDayPlan(day, distance_city, poi_city, travel_from_distance, travel_minutes, pois, note) ==
    [day |-> day,
     distance_city |-> distance_city,
     poi_city |-> poi_city,
     display_city |-> _display_name(distance_city),
     travel_from |-> IF travel_from_distance = NoCity THEN None ELSE _display_name(travel_from_distance),
     travel_minutes |-> travel_minutes,
     pois |-> pois,
     note |-> note]

\* lines 226-281: the stay decision of a non-final day, as
\* [should_stay, note_parts, extra_stay_used]
StayDecision(c, f, visit_counts, available_pois, pois, total_daily_tu) ==
    LET cur == f.current_distance_city
        remaining_days == c.num_days - f.day_index
        at_end == cur = f.end_distance
        contains_sport == \E poi \in Range(pois) : has_label(poi, "sport")
        event_reasons ==
            IF f.extra_stay_used[cur] THEN <<>>
            ELSE (IF contains_sport THEN <<"sport-focused day">> ELSE <<>>)
                 \o (IF /\ f.travel_from_distance # NoCity
                        /\ f.travel_minutes_prev >= LONG_TRAVEL_THRESHOLD_MINUTES
                     THEN <<"long travel day">> ELSE <<>>)
        target_stay == c.num_days > 10 /\ visit_counts[cur] < f.target_stay_days
        wanted == IF event_reasons # <<>> THEN event_reasons
                  ELSE IF target_stay THEN <<"target stay">> ELSE <<>>
        too_late == f.min_days_to_end[cur] >
                        Max(0, (remaining_days - 1) - (f.required_end_stay_days - 1))
        stay_reasons == IF ~at_end /\ remaining_days > 1 /\ ~too_late THEN wanted ELSE <<>>
        should_stay0 ==
            IF at_end
            THEN (IF f.same_start_end THEN FALSE ELSE visit_counts[cur] < f.required_end_stay_days)
            ELSE stay_reasons # <<>>
        used == \E i \in DOMAIN stay_reasons :
                    stay_reasons[i] \in {"sport-focused day", "long travel day"}
        low_tu_force_move == total_daily_tu < LOW_TU_THRESHOLD /\ remaining_days > 0
    IN  [should_stay |-> /\ should_stay0
                         /\ has_preferred_pois(available_pois[f.current_poi_city],
                                               c.preference_weights, c.season)
                         /\ ~low_tu_force_move,
         low_tu_force_move |-> low_tu_force_move,
         note_parts |-> stay_reasons,
         extra_stay_used |-> IF used THEN [f.extra_stay_used EXCEPT ![cur] = TRUE]
                             ELSE f.extra_stay_used]

\* lines 317-361: the day is rebuilt as an arrival day at next_city
ForcedMove(c, f, day_plan, note_parts, next_city, travel_minutes, dest_pois) ==
    LET origin_city == f.current_distance_city
        dest_poi_city == CITY_DISTANCE_TO_POI[next_city]
    IN  [f EXCEPT
            !.day_index = @ + 1,
            !.visit_counts = [[@ EXCEPT ![origin_city] = Max(0, @ - 1)] EXCEPT ![next_city] = @ + 1],
            !.available_pois = [@ EXCEPT ![dest_poi_city] = RemoveSelected(@, dest_pois)],
            !.day_plans = Append(@, NewDayPlan(day_plan.day, next_city, dest_poi_city, origin_city,
                                     travel_minutes, dest_pois,
                                     Append(note_parts, "moved due to low TU"))),
            !.previous_distance_city = next_city,
            !.travel_from_distance = next_city,
            !.travel_minutes_prev = 0,
            !.current_distance_city = next_city,
            !.current_poi_city = dest_poi_city]

\* lines 362-371: travel happens after today's activities
NormalMove(f, day_plan, note_parts, next_city, travel_minutes) ==
    [f EXCEPT
        !.day_index = @ + 1,
        !.day_plans = Append(@, [day_plan EXCEPT !.note = note_parts]),
        !.previous_distance_city = f.current_distance_city,
        !.travel_from_distance = f.current_distance_city,
        !.travel_minutes_prev = travel_minutes,
        !.current_distance_city = next_city,
        !.current_poi_city = CITY_DISTANCE_TO_POI[next_city]]

\* a stay that forgets to append the day
Stay_unrecorded(f, day_plan, note_parts) ==
    [f EXCEPT
        !.day_index = @ + 1,
        !.travel_from_distance = f.current_distance_city,
        !.travel_minutes_prev = 0]

\* a stay that does not use up a day of the loop
Stay_same_day(f, day_plan, note_parts) ==
    [f EXCEPT
        !.day_plans = Append(@, [day_plan EXCEPT !.note = note_parts]),
        !.travel_from_distance = f.current_distance_city,
        !.travel_minutes_prev = 0]

\* lines 288-293
Stay(f, day_plan, note_parts) ==
    [f EXCEPT
        !.day_index = @ + 1,
        !.day_plans = Append(@, [day_plan EXCEPT !.note = note_parts]),
        !.travel_from_distance = f.current_distance_city,
        !.travel_minutes_prev = 0]

\* lines 188-373: the rest of one loop iteration once today's POIs are selected;
\* f already carries this iteration's visit_counts and visited_cities
DayAfterSelect(pl, c, f, pois) ==
    LET cur == f.current_distance_city
        travel_tu == _travel_time_units(f.travel_minutes_prev)
        total_daily_tu == travel_tu + TuOf(pois)
        f2 == [f EXCEPT !.available_pois =
                  [@ EXCEPT ![f.current_poi_city] = RemoveSelected(@, pois)]]
        day_plan == NewDayPlan(f.day_index, cur, f.current_poi_city, f.travel_from_distance,
                               f.travel_minutes_prev, pois, <<>>)
    IN  IF f.day_index = c.num_days
        THEN IF cur # f.end_distance THEN {Raise(f2, ERR_NOT_REACHED)}
             ELSE LET plans == Append(f2.day_plans,
                                  [day_plan EXCEPT !.note = <<"final day at destination">>])
                  IN  {[f2 EXCEPT !.pc = "returned", !.day_plans = plans, !.result = plans]}
        ELSE
        LET d == StayDecision(c, f2, f2.visit_counts, f2.available_pois, pois, total_daily_tu)
            f3 == [f2 EXCEPT !.extra_stay_used = d.extra_stay_used]
        IN  IF d.should_stay THEN {Stay(f3, day_plan, d.note_parts)}
            ELSE
            LET best == _choose_next_city(pl, cur, f3.previous_distance_city, f3.day_index,
                            c.num_days, f3.end_distance, c.num_days - f3.day_index,
                            f3.visit_counts, f3.min_days_to_end, f3.distance_to_end,
                            f3.visited_cities, f3.available_pois, c.preference_weights,
                            c.season, f3.required_end_stay_days)
            IN  IF best = {} THEN {Raise(f3, ERR_NO_NEXT)}
                ELSE IF d.low_tu_force_move
                THEN UNION {{ForcedMove(c, f3, day_plan, d.note_parts, dest_info[1], dest_info[2], dest_pois)
                                : dest_pois \in SelectAtArrival(
                                      f3.available_pois[CITY_DISTANCE_TO_POI[dest_info[1]]],
                                      c.preference_weights, dest_info[2], c.season)}
                            : dest_info \in best}
                ELSE {NormalMove(f3, day_plan, d.note_parts, dest_info[1], dest_info[2])
                        : dest_info \in best}

\* one iteration of `for day_index in range(1, num_days + 1)`: every frame the
\* iteration can end in, over the choices of the random source
DayOutcomes(pl, c, f) ==
    LET cur == f.current_distance_city
        f1 == [f EXCEPT !.visit_counts = [@ EXCEPT ![cur] = @ + 1],
                        !.visited_cities = @ \cup {cur}]
    IN  IF NoPositiveWeight(c.preference_weights) THEN {Raise(f1, ERR_WEIGHTS)}
        ELSE UNION {DayAfterSelect(pl, c, f1, pois)
                      : pois \in select_pois_for_day(f.available_pois[f.current_poi_city],
                                     c.preference_weights,
                                     _travel_time_units(f.travel_minutes_prev), c.season)}

\* ------------------------------------------------------------------ evaluator.py
\* value.strip().lower().replace(", switzerland", ""), on the names the model uses
_normalize_city_name(value) ==
    CASE value \in DistanceNames -> _normalise_name(_display_name(value))
      [] OTHER -> _normalise_name(value)

\* blocks[city]: the (first day, last day) pairs of the maximal runs of days in city
BlocksOf(day_plans, city) ==
    LET n == Len(day_plans)
        at(i) == day_plans[i].distance_city = city
        firsts == {i \in 1..n : at(i) /\ (i = 1 \/ ~at(i - 1))}
    IN  {<<i, CHOOSE j \in i..n : (\A k \in i..j : at(k)) /\ (j = n \/ ~at(j + 1))>> : i \in firsts}

\* a revisit check that lets the start city of a loop trip return any number of times
_check_no_revisit_any_loop_blocks(day_plans, start_city, end_city) ==
    LET loop_trip == _normalize_city_name(start_city) = _normalize_city_name(end_city)
        cities == {day_plans[i].distance_city : i \in DOMAIN day_plans}
    IN  {city \in cities :
            LET blist == BlocksOf(day_plans, city)
            IN  /\ Cardinality(blist) > 1
                /\ ~( /\ loop_trip
                      /\ _normalize_city_name(city) = _normalize_city_name(start_city)
                      /\ \E b \in blist : b[1] = 1
                      /\ \E b \in blist : b[2] = Len(day_plans) )}

_check_no_revisit(day_plans, start_city, end_city) ==
    LET loop_trip == _normalize_city_name(start_city) = _normalize_city_name(end_city)
        cities == {day_plans[i].distance_city : i \in DOMAIN day_plans}
    IN  {city \in cities :
            LET blist == BlocksOf(day_plans, city)
            IN  /\ Cardinality(blist) > 1
                /\ ~( /\ loop_trip
                      /\ _normalize_city_name(city) = _normalize_city_name(start_city)
                      /\ Cardinality(blist) = 2
                      /\ \E b \in blist : b[1] = 1
                      /\ \E b \in blist : b[2] = Len(day_plans) )}

\* hard checks that forget the per-day TU ceiling
hard_violations_no_tu_check(day_plans, start_city, end_city, mtu, season) ==
    IF day_plans = <<>> THEN <<"empty itinerary">>
    ELSE
    (IF _normalize_city_name(day_plans[1].distance_city) # _normalize_city_name(start_city)
     THEN <<"day 1 not in start city">> ELSE <<>>)
    \o (IF _normalize_city_name(day_plans[Len(day_plans)].distance_city) # _normalize_city_name(end_city)
        THEN <<"last day not in end city">> ELSE <<>>)
    \o (IF _check_no_revisit(day_plans, start_city, end_city) # {}
        THEN <<"revisited cities">> ELSE <<>>)
    \o FlattenSeq([i \in DOMAIN day_plans |->
          FlattenSeq([k \in DOMAIN day_plans[i].pois |->
              IF ~_is_in_season(day_plans[i].pois[k], season)
              THEN <<"POI out of season">> ELSE <<>>])])

\* lines 144-187: the hard violations of evaluate_itinerary, by kind, in the
\* order the code appends them
hard_violations(day_plans, start_city, end_city, mtu, season) ==
    IF day_plans = <<>> THEN <<"empty itinerary">>
    ELSE
    (IF _normalize_city_name(day_plans[1].distance_city) # _normalize_city_name(start_city)
     THEN <<"day 1 not in start city">> ELSE <<>>)
    \o (IF _normalize_city_name(day_plans[Len(day_plans)].distance_city) # _normalize_city_name(end_city)
        THEN <<"last day not in end city">> ELSE <<>>)
    \o (IF _check_no_revisit(day_plans, start_city, end_city) # {}
        THEN <<"revisited cities">> ELSE <<>>)
    \o FlattenSeq([i \in DOMAIN day_plans |->
          FlattenSeq([k \in DOMAIN day_plans[i].pois |->
              IF ~_is_in_season(day_plans[i].pois[k], season)
              THEN <<"POI out of season">> ELSE <<>>])
          \o (IF _travel_time_units(day_plans[i].travel_minutes) + TuOf(day_plans[i].pois) > mtu
              THEN <<"day TU exceeds MTU">> ELSE <<>>)])

\* _load_distance_graph of evaluator.py: origin -> dest -> minutes, a null
\* duration loads as infinity (0 stays 0, unlike the planner's loader)
evaluator_load_distance_graph(data) ==
    [origin \in DOMAIN data |->
        [dest \in DOMAIN data[origin] |->
            IF data[origin][dest].duration_minutes = Null THEN Inf
            ELSE data[origin][dest].duration_minutes]]

RECURSIVE EvaluatorDijkstraLoop(_, _, _)
EvaluatorDijkstraLoop(graph, dist, settled) ==
    LET open == {u \in DOMAIN dist : u \notin settled /\ dist[u] < Inf}
    IN  IF open = {} THEN dist
        ELSE LET u == CHOOSE c \in open : \A d \in open : dist[c] <= dist[d]
                 relaxed == [v \in DOMAIN dist |->
                    IF v \in DOMAIN graph[u] /\ graph[u][v] < Inf /\ dist[u] + graph[u][v] < dist[v]
                    THEN dist[u] + graph[u][v] ELSE dist[v]]
             IN  EvaluatorDijkstraLoop(graph, relaxed, settled \cup {u})

\* _dijkstra of evaluator.py where it returns
evaluator_dijkstra(origin, graph) ==
    EvaluatorDijkstraLoop(graph, [node \in DOMAIN graph |-> IF node = origin THEN 0 ELSE Inf], {})

\* _dijkstra of evaluator.py raises KeyError: graph[u] of an origin that is no
\* key of the graph, or dist[v] of a finite edge into a city that is no key
evaluator_dijkstra_raises(origin, graph) ==
    \/ origin \notin DOMAIN graph
    \/ LET sp == evaluator_dijkstra(origin, graph)
       IN  \E u \in DOMAIN graph :
              /\ sp[u] < Inf
              /\ \E v \in DOMAIN graph[u] : graph[u][v] < Inf /\ v \notin DOMAIN graph

\* scores are kept in thousandths (a float s of the code is floor(1000 * s))
PerMille(num, den) == (1000 * num) \div den
Abs(x) == IF x < 0 THEN 0 - x ELSE x
ISqrt(x) == CHOOSE r \in 0..1000 : r * r <= x /\ (r + 1) * (r + 1) > x

COMPONENT_NAMES == {"interest_matching", "city_visit_efficiency", "geographic_coverage",
                    "tu_utilization", "long_travel_penalty"}

all_pois_of(day_plans) == FlattenSeq([i \in DOMAIN day_plans |-> day_plans[i].pois])

\* lines 192-217
interest_matching(day_plans, interests) ==
    LET all_pois == all_pois_of(day_plans)
        N == Len(all_pois)
        desired_total == SumSeq([k \in DOMAIN CATEGORIES |-> weight_of(interests, CATEGORIES[k])])
        \* target[c] as the fraction tn[c] / td
        td == IF desired_total <= 0 THEN Len(CATEGORIES) ELSE desired_total
        tn(c) == IF desired_total <= 0 THEN 1 ELSE weight_of(interests, c)
        counts(c) == Cardinality({k \in DOMAIN all_pois : _primary_label(all_pois[k]) = c})
        s_c(c) == Max(0, 1000 - PerMille(Abs(counts(c) * td - tn(c) * N), Max(tn(c) * N, td)))
    IN  IF N <= 0 THEN 0
        ELSE SumSeq([k \in DOMAIN CATEGORIES |-> s_c(CATEGORIES[k])]) \div Len(CATEGORIES)

\* lines 219-231
city_visit_efficiency(day_plans) ==
    LET U == Cardinality({day_plans[i].distance_city : i \in DOMAIN day_plans})
        target_cities == 1 + Min(Len(day_plans), 8)
    IN  Min(1000, PerMille(Max(0, U - 1), Max(1, target_cities - 1)))

\* lines 233-250, where _dijkstra returns
geographic_coverage(day_plans, start_city, graph) ==
    LET sp == evaluator_dijkstra(day_plans[1].distance_city, graph)
        seen == {day_plans[i].distance_city : i \in DOMAIN day_plans}
        other_cities == {c \in seen : _normalize_city_name(c) # _normalize_city_name(start_city)}
        finite_dists == {sp[c] : c \in {n \in DOMAIN sp : sp[n] < Inf}}
        M_max == CHOOSE m \in finite_dists : \A d \in finite_dists : d <= m
        covered == {c \in other_cities : c \in DOMAIN sp /\ sp[c] < Inf /\ M_max > 0}
        RECURSIVE SumOver(_)
        SumOver(cs) == IF cs = {} THEN 0
                       ELSE LET c == CHOOSE x \in cs : TRUE
                            IN  ISqrt((1000000 * Min(sp[c], M_max)) \div M_max) + SumOver(cs \ {c})
    IN  IF covered = {} THEN 0 ELSE SumOver(covered) \div Cardinality(covered)

\* lines 252-257
tu_utilization(day_plans, mtu) ==
    SumSeq([i \in DOMAIN day_plans |->
        Max(0, 1000 - PerMille(Abs(_travel_time_units(day_plans[i].travel_minutes)
                                     + TuOf(day_plans[i].pois) - mtu), mtu))])
      \div Len(day_plans)

\* exp(-((m - 120) / 30) ** 2) in thousandths, on the leg durations the model uses
LongTravelScore(m) ==
    CASE m <= 120 -> 1000
      [] m = 150 -> 367
      [] m = 180 -> 18
      [] OTHER -> 0

\* lines 259-267
long_travel_penalty(day_plans) ==
    SumSeq([i \in DOMAIN day_plans |-> LongTravelScore(day_plans[i].travel_minutes)])
      \div Len(day_plans)

\* a breakdown that reports five zero components where the code reports none
NoComponents_zeroed == [name \in COMPONENT_NAMES |-> 0]

NoComponents == [name \in {} |-> 0]

\* evaluate_itinerary where it returns: the ScoreBreakdown, total in tenths of a point
evaluate_itinerary(day_plans, start_city, end_city, interests, mtu, season, data) ==
    LET violations == hard_violations(day_plans, start_city, end_city, mtu, season)
    IN  IF violations # <<>>
        THEN [total |-> 0, components |-> NoComponents, hard_violations |-> violations]
        ELSE
        LET graph == evaluator_load_distance_graph(data)
            components == [name \in COMPONENT_NAMES |->
                CASE name = "interest_matching" -> interest_matching(day_plans, interests)
                  [] name = "city_visit_efficiency" -> city_visit_efficiency(day_plans)
                  [] name = "geographic_coverage" -> geographic_coverage(day_plans, start_city, graph)
                  [] name = "tu_utilization" -> tu_utilization(day_plans, mtu)
                  [] name = "long_travel_penalty" -> long_travel_penalty(day_plans)]
        IN  [total |-> (35 * components["interest_matching"] + 20 * components["tu_utilization"]
                        + 15 * components["city_visit_efficiency"]
                        + 15 * components["geographic_coverage"]
                        + 15 * components["long_travel_penalty"]) \div 100,
             components |-> components,
             hard_violations |-> <<>>]

\* evaluate_itinerary raises instead of returning: the KeyError of _dijkstra,
\* reached only when no hard violation returned early
evaluate_itinerary_raises(day_plans, start_city, end_city, mtu, season, data) ==
    /\ hard_violations(day_plans, start_city, end_city, mtu, season) = <<>>
    /\ evaluator_dijkstra_raises(day_plans[1].distance_city, evaluator_load_distance_graph(data))

\* ------------------------------------------------------------------ inputs
MaxPoolLen == 3
MaxTravelTu == 9
MaxDays == 4

\* needed-time titles, as the marks they contain
T_NONE == {}
T_LESS == {"less", "1"}
T_1_2 == {"1", "2"}
T_2_4 == {"2", "4"}
T_4_8 == {"4", "8"}
NeededTimes == {T_NONE, T_LESS, T_1_2, T_2_4, T_4_8}

POI(identifier, name, needed_time, seasons, labels) ==
    [identifier |-> identifier, name |-> name, needed_time |-> needed_time,
     seasons |-> seasons, labels |-> labels]

SelectUniverse ==
    { POI("u1", {"rhine", "falls"}, T_4_8, <<"summer">>, {"nature"}),
      POI("u2", {"rhine", "falls", "view", "platform"}, T_2_4, <<"summer", "winter">>, {"nature", "sport"}),
      POI("u3", {"old", "town"}, T_1_2, <<"winter", "summer">>, {"culture"}),
      POI("u4", {"zermatt", "skiing"}, T_LESS, <<"winter">>, {"sport"}),
      POI("u5", {"zermatt", "museum"}, T_NONE, <<>>, {"culture", "food"}),
      POI("u6", {"lake", "cruise"}, T_2_4, <<"summer">>, {"nature"}),
      POI("u7", {"cheese", "dairy"}, T_1_2, <<"summer">>, {"food"}),
      POI("u8", {"the", "lake"}, T_2_4, <<"autumn", "summer">>, {"nature", "culture"}) }

\* sequences of distinct POIs of the set universe, of length at most n
PoolsOver(universe, n) ==
    UNION {{pool \in [1..k -> universe] : \A i, j \in 1..k : i # j => pool[i] # pool[j]}
            : k \in 0..n}

W_UNIFORM == [category \in Range(CATEGORIES) |-> 1]
W_NATURE == [category \in Range(CATEGORIES) |->
                CASE category = "nature" -> 2 [] category = "culture" -> 1 [] OTHER -> 0]
W_SPORT == [category \in {"sport"} |-> 3]
W_ZERO == [category \in Range(CATEGORIES) |-> 0]
W_NEGATIVE == [category \in {"nature", "lake"} |-> IF category = "nature" THEN 0 - 1 ELSE 0]

WeightChoices == {W_UNIFORM, W_NATURE, W_SPORT, W_ZERO, W_NEGATIVE}
SeasonChoices == {None, "summer", "winter"}

SelIdle == [status |-> "idle", op |-> "none", pois |-> <<>>, preference_weights |-> W_UNIFORM,
            travel_tu |-> 0, season |-> None, result |-> <<>>, found |-> FALSE]
CatIdle == [status |-> "idle", pois |-> <<>>, season |-> None, result |-> <<>>]
NoPlanner == [distance_path |-> <<>>, _graph |-> <<>>, _shortest_km |-> <<>>, _shortest_minutes |-> <<>>]
NoCall == [start_city |-> "", end_city |-> "", num_days |-> 0,
           preference_weights |-> W_UNIFORM, season |-> None]

NoScore == [total |-> 0, components |-> NoComponents, hard_violations |-> <<>>]
EvIdle == [status |-> "idle", op |-> "none", day_plans |-> <<>>, start_city |-> "", end_city |-> "",
           interests |-> W_UNIFORM, mtu |-> 8, season |-> "summer", data |-> <<>>,
           result |-> NoScore, revisit |-> {}]

PlanIdle == /\ datastore = <<>>
            /\ planner = NoPlanner
            /\ call = NoCall
            /\ frame = NoFrame

\* ---- the day selector called on its own
InitSelect ==
    /\ sel \in {[SelIdle EXCEPT !.status = "ready", !.pois = pool, !.preference_weights = w,
                                !.travel_tu = t, !.season = s]
                 : pool \in PoolsOver(SelectUniverse, MaxPoolLen), w \in WeightChoices,
                   t \in 0..MaxTravelTu, s \in SeasonChoices}
    /\ cat = CatIdle
    /\ PlanIdle
    /\ ev = EvIdle

\* select_pois_for_day reads pois into lists of its own (lines 76-94) and
\* never writes to the sequence it was given
PoolAfterSelect(pois, chosen) == pois

CallSelectPoisForDay ==
    /\ sel.status = "ready"
    /\ IF NoPositiveWeight(sel.preference_weights)
       THEN sel' = [sel EXCEPT !.op = "select_pois_for_day", !.status = "raised"]
       ELSE \E chosen \in select_pois_for_day(sel.pois, sel.preference_weights, sel.travel_tu, sel.season) :
               sel' = [sel EXCEPT !.op = "select_pois_for_day", !.status = "returned",
                                  !.result = chosen,
                                  !.pois = PoolAfterSelect(sel.pois, chosen)]
    /\ UNCHANGED <<cat, datastore, planner, call, frame, ev>>

CallHasPreferredPois ==
    /\ sel.status = "ready"
    /\ IF NoPositiveWeight(sel.preference_weights)
       THEN sel' = [sel EXCEPT !.op = "has_preferred_pois", !.status = "raised"]
       ELSE sel' = [sel EXCEPT !.op = "has_preferred_pois", !.status = "returned",
                       !.found = has_preferred_pois(sel.pois, sel.preference_weights, sel.season)]
    /\ UNCHANGED <<cat, datastore, planner, call, frame, ev>>

NextSelect == CallSelectPoisForDay \/ CallHasPreferredPois

SpecSelect == InitSelect /\ [][NextSelect]_vars

\* ---- the catalog called on its own
\* value.strip().lower(), on the season strings the model passes in
SeasonKey(value) == IF value = " Winter " THEN "winter" ELSE value

\* normalize_season raises ValueError exactly when this holds
UnsupportedSeason(value) == SeasonKey(value) \notin Range(SEASONS)

normalize_season(value) == SeasonKey(value)

CatalogSeasons == {None, "summer", " Winter ", "autumn", "monsoon"}

InitCatalog ==
    /\ cat \in {[CatIdle EXCEPT !.status = "ready", !.pois = pool, !.season = s]
                 : pool \in PoolsOver(SelectUniverse, MaxPoolLen), s \in CatalogSeasons}
    /\ sel = SelIdle
    /\ PlanIdle
    /\ ev = EvIdle

CallPoisForCity ==
    /\ cat.status = "ready"
    /\ IF cat.pois # <<>> /\ cat.season # None /\ UnsupportedSeason(cat.season)
       THEN cat' = [cat EXCEPT !.status = "raised"]
       ELSE cat' = [cat EXCEPT !.status = "returned",
                       !.result = pois_for_city(cat.pois,
                                     IF cat.season = None THEN None ELSE normalize_season(cat.season))]
    /\ UNCHANGED <<sel, datastore, planner, call, frame, ev>>

NextCatalog == CallPoisForCity

SpecCatalog == InitCatalog /\ [][NextCatalog]_vars

\* ---- plan_route: catalogs, graphs and calls
BERN == "Bern, Switzerland"
INTERLAKEN == "Interlaken, Switzerland"
LUCERNE == "Lucerne, Switzerland"
ZURICH == "Zurich, Switzerland"
GENEVA == "Geneva, Switzerland"
LAUSANNE == "Lausanne, Switzerland"
MONTREUX == "Montreux, Switzerland"

\* POIs of a city, identified by <<poi city, tag>>
K_HALF(city) == POI(<<city, "half">>, {"gorge", "walk"}, T_2_4, <<"summer">>, {"nature"})
K_SHORT(city) == POI(<<city, "short">>, {"old", "town"}, T_1_2, <<"winter", "summer">>, {"culture"})
K_FULL(city) == POI(<<city, "full">>, {"summit", "hike"}, T_4_8, <<"summer">>, {"nature"})
K_CASTLE(city) == POI(<<city, "castle">>, {"castle"}, T_4_8, <<"winter", "summer">>, {"culture"})
K_QUICK(city) == POI(<<city, "quick">>, {"rafting"}, T_LESS, <<"summer">>, {"sport"})
K_WINTER(city) == POI(<<city, "winter">>, {"ski", "arena"}, T_4_8, <<"winter">>, {"sport"})

K_TWIN(city) == POI(<<city, "twin">>, {"old", "town", "museum"}, T_2_4, <<"summer">>, {"culture"})

P_TWINS(city) == <<K_SHORT(city), K_TWIN(city)>>
P_SMALL(city) == <<K_SHORT(city), K_QUICK(city)>>
P_FULL(city) == <<K_FULL(city)>>
P_MIXED(city) == <<K_HALF(city), K_SHORT(city), K_WINTER(city), K_QUICK(city)>>
P_RICH(city) == <<K_HALF(city), K_SHORT(city), K_FULL(city), K_CASTLE(city)>>

\* every catalog that gives each city one of the pools built by the templates
Catalogs(cities, templates) ==
    {[poi_city \in {CITY_DISTANCE_TO_POI[c] : c \in cities} |->
        LET t == pick[poi_city]
        IN  CASE t = "small" -> P_SMALL(poi_city)
              [] t = "full" -> P_FULL(poi_city)
              [] t = "mixed" -> P_MIXED(poi_city)
              [] t = "rich" -> P_RICH(poi_city)
              [] t = "twins" -> P_TWINS(poi_city)]
      : pick \in [{CITY_DISTANCE_TO_POI[c] : c \in cities} -> templates]}

Record(km, minutes) ==
    [distance_km |-> km, duration_minutes |-> minutes,
     status |-> IF minutes = Null THEN "NOT_FOUND" ELSE "OK"]

\* the distance file of a symmetric network: minutes[{a, b}] for each pair, Null
\* for no route, kilometres equal to the minutes; a city's record to itself is 0
SymmetricData(cities, minutes) ==
    [origin \in cities |-> [dest \in cities |->
        IF origin = dest THEN Record(0, 0)
        ELSE Record(minutes[{origin, dest}], minutes[{origin, dest}])]]

Pairs(cities) == {{a, b} : a, b \in cities} \ {{a} : a \in cities}

NewCall(start_city, end_city, num_days, preference_weights, season) ==
    [start_city |-> start_city, end_city |-> end_city, num_days |-> num_days,
     preference_weights |-> preference_weights, season |-> season]

World(data, store, c) == [data |-> data, store |-> store, call |-> c]

\* Scenario A: two cities, X -> Y of 90 minutes / 80 km, one POI per city
ScenarioAData(back) ==
    [origin \in {BERN, INTERLAKEN} |-> [dest \in {BERN, INTERLAKEN} |->
        IF origin = dest THEN Record(0, 0)
        ELSE IF origin = BERN THEN Record(80, 90)
        ELSE back]]

ScenarioAWorlds ==
    {World(ScenarioAData(back),
           [poi_city \in {"bern", "interlaken"} |->
               <<POI(<<poi_city, "only">>, {"summit", "hike"},
                     IF poi_city = "bern" THEN tx ELSE ty, <<"summer">>, {"nature"})>>],
           NewCall("Bern", "Interlaken", 2, w, "summer"))
      : back \in {Record(Null, Null), Record(80, 90)},
        tx \in NeededTimes, ty \in NeededTimes, w \in {W_UNIFORM, W_NATURE}}

\* short trips over three cities
SmallCities == {BERN, INTERLAKEN, LUCERNE}
SmallWorlds ==
    {World(SymmetricData(SmallCities, minutes), store, NewCall("Bern", end_city, n, W_UNIFORM, "summer"))
      : minutes \in [Pairs(SmallCities) -> {Null, 55, 180}],
        store \in Catalogs(SmallCities, {"small", "full", "mixed"}),
        end_city \in {"Bern", "Interlaken", "Lucerne"},
        n \in 1..MaxDays}

\* Scenario B: loop trips of 5 days over four connected cities
LoopCities == {BERN, INTERLAKEN, LUCERNE, ZURICH}
LoopWorlds ==
    {World(SymmetricData(LoopCities, minutes), store, NewCall("Bern", "Bern", 5, W_UNIFORM, "summer"))
      : minutes \in [Pairs(LoopCities) -> {55, 180}],
        store \in Catalogs(LoopCities, {"twins", "rich"})}

\* long trips along a line of seven cities, 40 minutes apart
LineCities == <<BERN, INTERLAKEN, LUCERNE, ZURICH, GENEVA, LAUSANNE, MONTREUX>>
LineMinutes == [pair \in Pairs(Range(LineCities)) |->
    LET i == CHOOSE i \in DOMAIN LineCities : LineCities[i] \in pair
        j == CHOOSE j \in DOMAIN LineCities : LineCities[j] \in pair /\ j # i
    IN  40 * (IF i > j THEN i - j ELSE j - i)]
LongWorlds ==
    {World(SymmetricData(Range(LineCities), LineMinutes), store,
           NewCall("Bern", "Montreux", n, W_UNIFORM, "summer"))
      : store \in Catalogs(Range(LineCities), {"mixed", "rich"}), n \in {7, 11, 15}}

\* calls that plan_route must reject
ValidationWorlds ==
    {World(SymmetricData({BERN, INTERLAKEN}, [pair \in Pairs({BERN, INTERLAKEN}) |-> minutes]),
           [poi_city \in {"bern", "interlaken"} |-> P_RICH(poi_city)],
           NewCall(start_city, end_city, n, w, "summer"))
      : minutes \in {Null, 90},
        start_city \in {"Bern", "Luzern", "Paris"},
        end_city \in {"Bern", "Interlaken", " Zuerich "},
        n \in {0, 1, 2},
        w \in {W_ZERO, W_NEGATIVE, W_SPORT}}

Worlds == ScenarioAWorlds \cup SmallWorlds \cup LoopWorlds \cup LongWorlds \cup ValidationWorlds

InitPlan ==
    /\ sel = SelIdle
    /\ cat = CatIdle
    /\ \E w \in Worlds :
        /\ datastore = w.store
        /\ planner = NewRoutePlanner(w.data)
        /\ call = w.call
    /\ frame = [NoFrame EXCEPT !.pc = "start"]
    /\ ev = EvIdle

\* plan_route up to the day loop
PlanRouteBegin ==
    /\ frame.pc = "start"
    /\ frame' = PlanSetup(planner, datastore, call, frame)
    /\ UNCHANGED <<sel, cat, datastore, planner, call, ev>>

\* a run whose pools are the catalog's own sequences
CatalogAfterDay_shared(store, before, after) ==
    [poi_city \in DOMAIN store |->
        IF poi_city \in DOMAIN after THEN FilterSeq(store[poi_city], Range(after[poi_city]))
        ELSE store[poi_city]]

\* lines 156-159 and 199-203: available_pois holds lists built by list(...),
\* and a day rebinds available_pois[city] to a new list; the catalog's tuples
\* are not written
CatalogAfterDay(store, before, after) == store

\* one iteration of the day loop
PlanRouteDay ==
    /\ frame.pc = "loop"
    /\ \E f \in DayOutcomes(planner, call, frame) : frame' = f
    /\ datastore' = CatalogAfterDay(datastore, frame.available_pois, frame'.available_pois)
    /\ UNCHANGED <<sel, cat, planner, call, ev>>

NextPlan == PlanRouteBegin \/ PlanRouteDay

SpecPlan == InitPlan /\ [][NextPlan]_vars

\* the runs followed to their end: loop trips, long trips, the two-city
\* scenario and the calls plan_route rejects
InitPlanFair ==
    /\ sel = SelIdle
    /\ cat = CatIdle
    /\ \E w \in LoopWorlds \cup LongWorlds \cup ScenarioAWorlds \cup ValidationWorlds :
        /\ datastore = w.store
        /\ planner = NewRoutePlanner(w.data)
        /\ call = w.call
    /\ frame = [NoFrame EXCEPT !.pc = "start"]
    /\ ev = EvIdle

\* PlanRouteDay can take a step: the loop is running and the day has an outcome
DayEnabled == frame.pc = "loop" /\ DayOutcomes(planner, call, frame) # {}

\* plan_route is one sequential call: once entered, its next step is taken.
\* The second condition is WF_vars(PlanRouteDay) with ENABLED written out.
SpecPlanFair ==
    /\ InitPlanFair /\ [][NextPlan]_vars
    /\ WF_vars(PlanRouteBegin)
    /\ ([]<>(~DayEnabled) \/ []<><<PlanRouteDay>>_vars)

\* ---- the planner's construction from a distance file
DistanceEntry(km, minutes, status) ==
    [distance_km |-> km, duration_minutes |-> minutes, status |-> status]

\* no record for the pair in the file
Absent == [status |-> "absent"]

\* what a file can hold for a pair of cities: two routes that rank differently
\* by distance and by time, a failed lookup without values, a record that is
\* not OK but has values, or nothing
EdgeRecords ==
    {DistanceEntry(30, 100, "OK"), DistanceEntry(100, 30, "OK"),
     DistanceEntry(Null, Null, "NOT_FOUND"), DistanceEntry(50, 60, "ZERO_RESULTS"), Absent}

DirectedPairs(cities) == {<<a, b>> : a, b \in cities} \ {<<a, a>> : a \in cities}

\* the distance files over three cities: every city is an origin, a city's
\* record to itself is 0 km / 0 minutes with status OK
GraphFiles ==
    {[origin \in SmallCities |->
        [dest \in {d \in SmallCities : d = origin \/ pick[<<origin, d>>] # Absent} |->
            IF dest = origin THEN DistanceEntry(0, 0, "OK") ELSE pick[<<origin, dest>>]]]
      : pick \in [DirectedPairs(SmallCities) -> EdgeRecords]}

InitGraph ==
    /\ sel = SelIdle
    /\ cat = CatIdle
    /\ datastore = <<>>
    /\ \E data \in GraphFiles : planner = [NoPlanner EXCEPT !.distance_path = data]
    /\ call = NoCall
    /\ frame = NoFrame
    /\ ev = EvIdle

\* RoutePlanner(datastore, distance_path)
CallRoutePlanner ==
    /\ planner._graph = <<>>
    /\ planner.distance_path # <<>>
    /\ planner' = NewRoutePlanner(planner.distance_path)
    /\ UNCHANGED <<sel, cat, datastore, call, frame, ev>>

NextGraph == CallRoutePlanner

SpecGraph == InitGraph /\ [][NextGraph]_vars

\* ---- a planning run next to calls of the selector on the run's kinds of pool
RunPools == {P_SMALL("bern"), P_MIXED("bern"), P_RICH("bern"), P_TWINS("bern")}

InitSelectInRun ==
    /\ sel \in {[SelIdle EXCEPT !.status = "ready", !.pois = pool, !.preference_weights = w,
                                !.travel_tu = t, !.season = s]
                 : pool \in RunPools, w \in {W_UNIFORM, W_SPORT, W_ZERO},
                   t \in {0, 2, 4}, s \in {"summer", "winter"}}
    /\ cat = CatIdle
    /\ PlanIdle
    /\ ev = EvIdle

NextRun == PlanRouteBegin \/ PlanRouteDay \/ CallSelectPoisForDay

SpecRun == (InitPlan \/ InitSelectInRun) /\ [][NextRun]_vars

\* ---- the evaluator called on its own
MaxEvalDays == 2
MaxSeqLen == 5

\* a DayPlan of a hand-built itinerary
EvalDay(day, distance_city, travel_minutes, pois) ==
    NewDayPlan(day, distance_city, CITY_DISTANCE_TO_POI[distance_city],
               IF travel_minutes = 0 THEN NoCity ELSE distance_city, travel_minutes, pois, <<>>)

\* every itinerary of 0..n days whose days are drawn from choices[city]
ItinerariesOver(cities, choices, n) ==
    UNION {{[i \in 1..k |-> EvalDay(i, pick[i][1], pick[i][2], pick[i][3])]
              : pick \in [1..k -> UNION {{<<c, ch[1], ch[2]>> : ch \in choices[c]} : c \in cities}]}
            : k \in 0..n}

\* <<travel_minutes, pois>> of a day: empty, one full-day summer POI, or a short
\* POI with a winter-only POI, each with or without a 90-minute leg
ContentChoices(city) ==
    {<<m, pois>> : m \in {0, 90},
                   pois \in {<<>>, <<K_FULL(CITY_DISTANCE_TO_POI[city])>>,
                             <<K_SHORT(CITY_DISTANCE_TO_POI[city]), K_WINTER(CITY_DISTANCE_TO_POI[city])>>}}

BareChoices(city) == {<<0, <<>> >>}

\* distance files: both directions; one direction with the far city no origin key
G_BOTH == SymmetricData({BERN, INTERLAKEN}, [p \in Pairs({BERN, INTERLAKEN}) |-> 90])
G_BERN_ONLY == [origin \in {BERN} |-> [dest \in {INTERLAKEN} |-> Record(80, 90)]]
G_THREE == SymmetricData({BERN, INTERLAKEN, LUCERNE},
              [p \in Pairs({BERN, INTERLAKEN, LUCERNE}) |-> IF BERN \in p THEN 55 ELSE Null])

NewEval(day_plans, start_city, end_city, interests, mtu, season, data) ==
    [EvIdle EXCEPT !.status = "ready", !.day_plans = day_plans, !.start_city = start_city,
                   !.end_city = end_city, !.interests = interests, !.mtu = mtu,
                   !.season = season, !.data = data]

\* short itineraries with every kind of content
ContentEvals ==
    {NewEval(day_plans, start_city, end_city, interests, mtu, season, data)
      : day_plans \in ItinerariesOver({BERN, INTERLAKEN}, [c \in {BERN, INTERLAKEN} |-> ContentChoices(c)], MaxEvalDays),
        start_city \in {"Bern", "Interlaken"}, end_city \in {"Bern", "Interlaken"},
        interests \in {W_UNIFORM, W_ZERO}, mtu \in {8, 10}, season \in {"summer", "winter"},
        data \in {G_BOTH, G_BERN_ONLY}}

\* longer city sequences without content, declared under names and aliases
SequenceEvals ==
    {NewEval(day_plans, start_city, end_city, W_UNIFORM, 8, "summer", G_THREE)
      : day_plans \in ItinerariesOver({BERN, INTERLAKEN, LUCERNE}, [c \in {BERN, INTERLAKEN, LUCERNE} |-> BareChoices(c)], MaxSeqLen),
        start_city \in {"Bern", "Lucerne", "Luzern"}, end_city \in {"Bern", "Lucerne", "Luzern"}}

InitEval ==
    /\ ev \in ContentEvals \cup SequenceEvals
    /\ sel = SelIdle
    /\ cat = CatIdle
    /\ PlanIdle

CallEvaluateItinerary ==
    /\ ev.status = "ready"
    /\ ev' = IF evaluate_itinerary_raises(ev.day_plans, ev.start_city, ev.end_city,
                                          ev.mtu, ev.season, ev.data)
             THEN [ev EXCEPT !.op = "evaluate_itinerary", !.status = "raised"]
             ELSE [ev EXCEPT !.op = "evaluate_itinerary", !.status = "returned",
                      !.result = evaluate_itinerary(ev.day_plans, ev.start_city, ev.end_city,
                                     ev.interests, ev.mtu, ev.season, ev.data)]
    /\ UNCHANGED <<sel, cat, datastore, planner, call, frame>>

CallCheckNoRevisit ==
    /\ ev.status = "ready"
    /\ ev' = [ev EXCEPT !.op = "_check_no_revisit", !.status = "returned",
                 !.revisit = _check_no_revisit(ev.day_plans, ev.start_city, ev.end_city)]
    /\ UNCHANGED <<sel, cat, datastore, planner, call, frame>>

NextEval == CallEvaluateItinerary \/ CallCheckNoRevisit

SpecEval == InitEval /\ [][NextEval]_vars

Init == InitSelect \/ InitCatalog \/ InitPlan \/ InitSelectInRun \/ InitEval \/ InitGraph

Next == CallSelectPoisForDay \/ CallHasPreferredPois \/ CallPoisForCity
        \/ PlanRouteBegin \/ PlanRouteDay
        \/ CallEvaluateItinerary \/ CallCheckNoRevisit
        \/ CallRoutePlanner

Spec == Init /\ [][Next]_vars

\* ------------------------------------------------------------------ properties
Returned == frame.pc = "returned"
Itinerary == frame.result
CityOf(i) == Itinerary[i].distance_city
DayTotalTu(day_plan) == _travel_time_units(day_plan.travel_minutes) + TuOf(day_plan.pois)
Rewritten(day_plan) == \E k \in DOMAIN day_plan.note : day_plan.note[k] = "moved due to low TU"
StartCity == _resolve_city(call.start_city)
EndCity == _resolve_city(call.end_city)

\* C1: every day of a returned itinerary, a day rewritten by the low-TU forced
\* move included, has travel TU + POI TU at most 8.
C1_DayTuWithinCeiling ==
    Returned => \A i \in DOMAIN Itinerary : DayTotalTu(Itinerary[i]) <= 8

C1_Witness ==
    /\ Returned
    /\ \E i \in DOMAIN Itinerary :
        /\ Rewritten(Itinerary[i])
        /\ Itinerary[i].travel_minutes > 0
        /\ Itinerary[i].pois # <<>>
        /\ DayTotalTu(Itinerary[i]) = 8

SelectReturned == sel.status = "returned" /\ sel.op = "select_pois_for_day"
NoSimilarPair(pois) == \A i, j \in DOMAIN pois : i # j => ~_are_similar(pois[i], pois[j])

\* C2 (as stated): select_pois_for_day never returns two similar POIs, and the
\* summed TU of the returned POIs never exceeds 8 - travel_tu, for every travel_tu.
C2_Original ==
    SelectReturned =>
        /\ NoSimilarPair(sel.result)
        /\ TuOf(sel.result) <= 8 - sel.travel_tu

\* C2 (amended): select_pois_for_day never returns two similar POIs; when
\* travel_tu is at most 8 the summed TU of the returned POIs is at most
\* 8 - travel_tu, and when travel_tu exceeds 8 the result is empty.
C2_SelectionFitsBudget ==
    SelectReturned =>
        /\ NoSimilarPair(sel.result)
        /\ sel.travel_tu <= 8 => TuOf(sel.result) <= 8 - sel.travel_tu
        /\ sel.travel_tu > 8 => sel.result = <<>>

C2_Witness ==
    /\ SelectReturned
    /\ Len(sel.result) >= 2
    /\ TuOf(sel.result) = 8 - sel.travel_tu
    /\ \E i, j \in DOMAIN sel.pois :
          /\ _are_similar(sel.pois[i], sel.pois[j])
          /\ sel.pois[i] \in Range(sel.result)
          /\ sel.pois[j] \in Range(activity_info_of(sel.pois, sel.preference_weights, sel.season))

NumBlocks(city) ==
    Cardinality({i \in DOMAIN Itinerary : CityOf(i) = city /\ (i = 1 \/ CityOf(i - 1) # city)})

\* C4: in a returned itinerary no city occupies two separate blocks of days,
\* except the start city of a loop trip, which may occupy exactly two, one
\* beginning on day 1 and one ending on the last day.
C4_NoSplitCity ==
    Returned =>
        \A i \in DOMAIN Itinerary :
            \/ NumBlocks(CityOf(i)) = 1
            \/ /\ StartCity = EndCity
               /\ CityOf(i) = StartCity
               /\ NumBlocks(CityOf(i)) = 2
               /\ CityOf(1) = StartCity
               /\ CityOf(Len(Itinerary)) = StartCity

C4_Witness ==
    /\ Returned
    /\ StartCity = EndCity
    /\ NumBlocks(StartCity) = 2
    /\ Cardinality({CityOf(i) : i \in DOMAIN Itinerary}) >= 3

\* C5: plan_route returns exactly num_days DayPlans numbered 1..num_days, the
\* last one at the end city, or fails and returns nothing.
C5_WholeItineraryOrNothing ==
    /\ Returned =>
        /\ Len(Itinerary) = call.num_days
        /\ \A i \in DOMAIN Itinerary : Itinerary[i].day = i
        /\ CityOf(Len(Itinerary)) = EndCity
    /\ ~Returned => Itinerary = <<>>

C5_Witness ==
    /\ Returned
    /\ Len(Itinerary) >= 4
    /\ \E i \in DOMAIN Itinerary : Rewritten(Itinerary[i])
    /\ \E i \in 2..Len(Itinerary) : CityOf(i) = CityOf(i - 1) /\ CityOf(i) # EndCity

\* C6: a returned itinerary of a non-loop trip of N days ends with at least r
\* consecutive days at the end city (r = 3 if N >= 15, 2 if 7 <= N <= 14, else 1),
\* and never leaves the end city once it is there.
C6_EndCityDwell ==
    (Returned /\ StartCity # EndCity) =>
        LET n == call.num_days
            r == IF n >= 15 THEN 3 ELSE IF n >= 7 THEN 2 ELSE 1
        IN  /\ \A i \in (n - r + 1)..n : CityOf(i) = EndCity
            /\ \A i, j \in DOMAIN Itinerary : (i < j /\ CityOf(i) = EndCity) => CityOf(j) = EndCity

C6_Witness ==
    /\ Returned
    /\ StartCity # EndCity
    /\ call.num_days >= 15
    /\ CityOf(call.num_days - 3) # EndCity

ScenarioA ==
    /\ DOMAIN planner._graph = {BERN, INTERLAKEN}
    /\ planner._graph[BERN][INTERLAKEN] = [distance_km |-> 80, duration_minutes |-> 90]
    /\ call.start_city = "Bern" /\ call.end_city = "Interlaken"
    /\ call.num_days = 2 /\ call.season = "summer"
    /\ \A poi_city \in DOMAIN datastore :
        /\ Len(datastore[poi_city]) = 1
        /\ has_preferred_pois(datastore[poi_city], call.preference_weights, "summer")

\* C7 (Scenario A): X -> Y of 90 minutes / 80 km, start X, end Y, 2 days, one
\* matching summer POI per city of any duration bucket: the returned itinerary
\* has day 1 at X with at most one POI and day 2 at Y with travel_minutes = 90.
C7_ScenarioA ==
    (frame.pc \notin {"idle", "start"} /\ ScenarioA /\ Returned) =>
        /\ CityOf(1) = BERN
        /\ Len(Itinerary[1].pois) <= 1
        /\ CityOf(2) = INTERLAKEN
        /\ Itinerary[2].travel_minutes = 90

EligibleInSeason(pool) ==
    {poi \in Range(_filter_pois_by_preferences(pool, call.preference_weights)) :
        _is_in_season(poi, call.season)}

SufficientPois ==
    \A poi_city \in DOMAIN datastore : Cardinality(EligibleInSeason(datastore[poi_city])) >= 2

\* C8 (Scenario B): a loop trip of 5 days over cities that all have sufficient
\* eligible in-season POIs: every returned itinerary has its first and last day
\* at the start city and evaluate_itinerary (MTU 8) reports no hard violation.
C8_ScenarioB ==
    (Returned /\ StartCity = EndCity /\ call.num_days = 5 /\ SufficientPois) =>
        /\ CityOf(1) = StartCity
        /\ CityOf(5) = StartCity
        /\ hard_violations(Itinerary, call.start_city, call.end_city, 8, call.season) = <<>>

NoStrictlyPositiveWeight(w) == \A category \in DOMAIN w : w[category] <= 0

Lists(poi, season) == \E k \in DOMAIN poi.seasons : poi.seasons[k] = season
RankIn(poi, season) == (CHOOSE k \in DOMAIN poi.seasons : poi.seasons[k] = season) - 1

\* C10: pois_for_city(city, season) returns a permutation of the city's POIs;
\* the POIs listing the season come first, in non-decreasing order of the
\* season's rank in their own list; a POI with an empty season list is
\* returned after every POI that lists the season.
C10_CatalogOrder ==
    (cat.status = "returned" /\ cat.season # None) =>
        LET season == normalize_season(cat.season)
            result == cat.result
        IN  /\ Len(result) = Len(cat.pois)
            /\ Range(result) = Range(cat.pois)
            /\ \A i, j \in DOMAIN result :
                 (i < j /\ Lists(result[j], season)) =>
                    /\ Lists(result[i], season)
                    /\ RankIn(result[i], season) <= RankIn(result[j], season)
            /\ \A i, j \in DOMAIN result :
                 (result[i].seasons = <<>> /\ Lists(result[j], season)) => j < i

C10_Witness ==
    /\ cat.status = "returned"
    /\ cat.season = " Winter "
    /\ Len(cat.pois) >= 3
    /\ cat.pois[1].seasons = <<>>
    /\ \E i, j \in DOMAIN cat.pois :
          /\ i < j
          /\ Lists(cat.pois[i], "winter") /\ Lists(cat.pois[j], "winter")
          /\ RankIn(cat.pois[i], "winter") > RankIn(cat.pois[j], "winter")
    /\ cat.result[Len(cat.result)].seasons = <<>>

\* ---- the evaluator's hard checks
EvReturned == ev.op = "evaluate_itinerary" /\ ev.status = "returned"

\* the declared name is the day city's distance name or its display name
DeclaredIs(city, declared) == declared \in {city, _display_name(city)}

EvCity(i) == ev.day_plans[i].distance_city

\* number of maximal blocks of consecutive days spent in city
EvNumBlocks(city) ==
    Cardinality({i \in DOMAIN ev.day_plans : EvCity(i) = city /\ (i = 1 \/ EvCity(i - 1) # city)})

\* city is the start city of a loop trip and brackets it in exactly two blocks
LoopBracket(city) ==
    /\ DeclaredIs(city, ev.start_city) /\ DeclaredIs(city, ev.end_city)
    /\ EvNumBlocks(city) = 2
    /\ EvCity(1) = city /\ EvCity(Len(ev.day_plans)) = city

IllegallyRevisited ==
    {city \in {EvCity(i) : i \in DOMAIN ev.day_plans} : EvNumBlocks(city) > 1 /\ ~LoopBracket(city)}

DayOverMtu(i) == DayTotalTu(ev.day_plans[i]) > ev.mtu

\* C11: for a non-empty itinerary, evaluate_itinerary returns no violation
\* exactly when day 1 is in the declared start city, the last day is in the
\* declared end city (a city being declared by its distance name or display
\* name), no city is illegally revisited, every POI lists the declared season
\* and no day's travel TU + activity TU exceeds the MTU; a day above the MTU
\* is always reported.
C11_HardChecks ==
    (EvReturned /\ ev.day_plans # <<>>) =>
        /\ ev.result.hard_violations = <<>> <=>
              /\ DeclaredIs(EvCity(1), ev.start_city)
              /\ DeclaredIs(EvCity(Len(ev.day_plans)), ev.end_city)
              /\ IllegallyRevisited = {}
              /\ \A i \in DOMAIN ev.day_plans : \A k \in DOMAIN ev.day_plans[i].pois :
                    ev.season \in Range(ev.day_plans[i].pois[k].seasons)
              /\ \A i \in DOMAIN ev.day_plans : ~DayOverMtu(i)
        /\ (\E i \in DOMAIN ev.day_plans : DayOverMtu(i)) =>
              "day TU exceeds MTU" \in Range(ev.result.hard_violations)

C11_Witness ==
    /\ EvReturned
    /\ Len(ev.day_plans) = 2
    /\ DayOverMtu(2) /\ ~DayOverMtu(1)
    /\ DeclaredIs(EvCity(1), ev.start_city) /\ DeclaredIs(EvCity(2), ev.end_city)
    /\ \A i \in DOMAIN ev.day_plans : \A k \in DOMAIN ev.day_plans[i].pois :
          ev.season \in Range(ev.day_plans[i].pois[k].seasons)
    /\ ev.result.hard_violations = <<"day TU exceeds MTU">>

\* C12: a returned ScoreBreakdown with violations has total 0 and no
\* components; one without violations has exactly the five components
\* interest_matching, tu_utilization, city_visit_efficiency,
\* geographic_coverage and long_travel_penalty.
C12_BreakdownShape ==
    EvReturned =>
        /\ ev.result.hard_violations # <<>> =>
              ev.result.total = 0 /\ DOMAIN ev.result.components = {}
        /\ ev.result.hard_violations = <<>> =>
              DOMAIN ev.result.components =
                 {"interest_matching", "tu_utilization", "city_visit_efficiency",
                  "geographic_coverage", "long_travel_penalty"}

C12_Witness ==
    /\ EvReturned
    /\ ev.result.hard_violations = <<"day 1 not in start city", "POI out of season">>
    /\ ev.result.total = 0

\* C13: _check_no_revisit reports a city exactly when it occupies more than
\* one maximal block of consecutive days, except the start city of a loop
\* trip occupying exactly two blocks, the first beginning on day 1 and the
\* second ending on the last day.
C13_RevisitReport ==
    (ev.op = "_check_no_revisit" /\ ev.status = "returned") => ev.revisit = IllegallyRevisited

C13_Witness ==
    /\ ev.op = "_check_no_revisit" /\ ev.status = "returned"
    /\ ev.start_city = "Bern" /\ ev.end_city = "Bern"
    /\ Len(ev.day_plans) = 5
    /\ EvNumBlocks(BERN) = 3 /\ EvCity(1) = BERN /\ EvCity(5) = BERN
    /\ BERN \in ev.revisit

\* ---- validation before the day loop
GraphCities == DOMAIN planner._graph

\* the loaded weight of the direct edge a -> b, Inf when there is none
EdgeWeight(a, b, weight_key) ==
    IF a \in GraphCities /\ b \in DOMAIN planner._graph[a] THEN planner._graph[a][b][weight_key] ELSE Inf

LeastOf(values) == IF values = {} THEN Inf ELSE CHOOSE v \in values : \A w \in values : v <= w

RECURSIVE LeastCost(_, _, _)
\* the pairs <<city, least total weight of a route of at most k edges from city
\* to target>>, for the cities that have such a route
LeastCost(target, weight_key, k) ==
    IF k = 0 THEN {<<target, 0>>}
    ELSE LET prev == LeastCost(target, weight_key, k - 1)
             costs(city) == {p[2] : p \in {q \in prev : q[1] = city}}
                             \cup {EdgeWeight(city, p[1], weight_key) + p[2]
                                     : p \in {q \in prev : EdgeWeight(city, q[1], weight_key) < Inf}}
         IN  {<<city, LeastOf(costs(city))>> : city \in {c \in GraphCities \cup {target} : costs(c) # {}}}

RouteCost(city, target, weight_key) ==
    LeastOf({p[2] : p \in {q \in LeastCost(target, weight_key, Cardinality(GraphCities)) : q[1] = city}})

\* days of travel needed under the daily limit: the least travel time divided by 240, rounded up
DaysNeeded(city, target) ==
    IF RouteCost(city, target, "duration_minutes") >= Inf THEN Inf
    ELSE CeilDiv(RouteCost(city, target, "duration_minutes"), 240)

EndDwell == IF StartCity = EndCity THEN 1
            ELSE IF call.num_days >= 15 THEN 3 ELSE IF call.num_days >= 7 THEN 2 ELSE 1

FailedBeforeAnyDay == frame.pc = "raised" /\ frame.day_plans = <<>> /\ frame.day_index = 0

IsFilterOf(sub, seq) == sub = FilterSeq(seq, Range(sub))

\* C15: no step of a planning run and no call of select_pois_for_day changes
\* the catalog: pois_for_city returns for every city and season the sequence
\* it returned before, the pool given to select_pois_for_day is the same
\* sequence after the call, and the only pools that change are the run's own
\* per-city copies, which lose POIs and gain none.
C15_CatalogUntouched ==
    [][ /\ DOMAIN datastore' = DOMAIN datastore
        /\ \A poi_city \in DOMAIN datastore : \A season \in {None, "summer", "winter"} :
              pois_for_city(datastore'[poi_city], season) = pois_for_city(datastore[poi_city], season)
        /\ sel'.pois = sel.pois
        /\ (frame.pc = "loop" /\ frame'.pc = "loop") =>
              \A poi_city \in DOMAIN frame.available_pois :
                 IsFilterOf(frame'.available_pois[poi_city], frame.available_pois[poi_city]) ]_vars

C15_Witness ==
    /\ frame.pc = "returned"
    /\ Len(frame.result) >= 3
    /\ \E poi_city \in DOMAIN datastore :
          /\ Len(frame.available_pois[poi_city]) + 2 <= Len(datastore[poi_city])
          /\ pois_for_city(datastore[poi_city], call.season) # frame.available_pois[poi_city]

\* ---- termination
Finished == frame.pc \in {"returned", "raised"}

\* C16: every call of plan_route ends, by returning or by failing, and no
\* more than num_days days are processed on the way: the loop is never past
\* day num_days and never holds more than num_days days.
C16_Terminates ==
    /\ <>Finished
    /\ [](/\ frame.day_index <= Max(0, call.num_days)
          /\ Len(frame.day_plans) <= Max(0, call.num_days))

C16_Witness ==
    /\ Returned
    /\ call.num_days = 5
    /\ Len(frame.result) = call.num_days
    /\ \E i \in DOMAIN Itinerary : i > 1 /\ CityOf(i) = CityOf(i - 1)

\* ---- days to the end city
\* a -> b is one day's hop: a direct edge of at most 240 minutes
DayHop(a, b) == a # b /\ EdgeWeight(a, b, "duration_minutes") <= 240

RECURSIVE WithinHops(_, _)
\* the cities from which target is reached in at most k day hops
WithinHops(target, k) ==
    IF k = 0 THEN {target}
    ELSE LET prev == WithinHops(target, k - 1)
         IN  prev \cup {city \in GraphCities : \E d \in prev : DayHop(city, d)}

\* least number of day hops from city to target, Inf when no route of day hops exists
MinHops(city, target) ==
    LET n == Cardinality(GraphCities)
    IN  IF city \notin WithinHops(target, n) THEN Inf
        ELSE CHOOSE k \in 0..n : city \in WithinHops(target, k)
                                 /\ \A j \in 0..n : city \in WithinHops(target, j) => k <= j

\* C17: in the day loop, min_days_to_end of every city is the least number of
\* single-day hops (direct edges of at most 240 minutes) on a route from the
\* city to the end city, and infinite when there is no such route.
C17_MinDaysIsHops ==
    frame.pc = "loop" =>
        \A city \in GraphCities : frame.min_days_to_end[city] = MinHops(city, frame.end_distance)

\* ---- the low-TU rule
LastDay(f) == f.day_plans[Len(f.day_plans)]

\* the POIs a step took out of the pool of the city the day began in
TakenHere == {poi \in Range(frame.available_pois[frame.current_poi_city]) :
                 poi \notin Range(frame'.available_pois[frame.current_poi_city])}

\* C18: a step that emits a non-final day emits exactly one day. If the
\* day's TU in its city (incoming travel TU + TU of the POIs selected there)
\* is under 6, the day emitted is an arrival day at another city, now the
\* current one, carrying the travel minutes of the direct leg (at most 240)
\* and POIs of the arrival city's pool of at most 8 minus the leg's TU;
\* otherwise it is a day in the city with the selected POIs. Hence every
\* non-final emitted day that is no rewrite has total TU from 6 to 8.
C18_LowTuDayRewritten ==
    /\ [][ (frame.pc = "loop" /\ frame.day_index < call.num_days /\ frame'.pc = "loop") =>
             LET d == LastDay(frame')
                 here == frame.current_distance_city
                 tu_here == _travel_time_units(frame.travel_minutes_prev)
                              + TuOf(FilterSeq(frame.available_pois[frame.current_poi_city], TakenHere))
             IN  /\ Len(frame'.day_plans) = Len(frame.day_plans) + 1
                 /\ d.day = frame.day_index
                 /\ IF tu_here < 6
                    THEN /\ Rewritten(d)
                         /\ d.distance_city # here
                         /\ d.distance_city = frame'.current_distance_city
                         /\ d.travel_from = _display_name(here)
                         /\ d.travel_minutes = EdgeWeight(here, d.distance_city, "duration_minutes")
                         /\ d.travel_minutes <= 240
                         /\ Range(d.pois) \subseteq Range(frame.available_pois[d.poi_city])
                         /\ TuOf(d.pois) <= 8 - _travel_time_units(d.travel_minutes)
                    ELSE /\ ~Rewritten(d)
                         /\ d.distance_city = here
                         /\ Range(d.pois) = TakenHere
                         /\ DayTotalTu(d) = tu_here ]_vars
    /\ [](\A i \in DOMAIN frame.day_plans :
             (i < call.num_days /\ ~Rewritten(frame.day_plans[i])) =>
                 DayTotalTu(frame.day_plans[i]) \in 6..8)

C18_Witness ==
    /\ Returned
    /\ \E i \in DOMAIN Itinerary :
          /\ 1 < i /\ i < call.num_days
          /\ Rewritten(Itinerary[i])
          /\ Itinerary[i].pois # <<>>
          /\ Itinerary[i].travel_minutes = 180
          /\ ~Rewritten(Itinerary[i - 1])

\* ---- the next city
LegMinutes(a, b) == EdgeWeight(a, b, "duration_minutes")

\* the travel-duration bucket of a leg: 1 for <= 60, 2 for <= 120, 3 for <= 180, 4 for <= 240
BucketOf(minutes) == IF minutes <= 60 THEN 1 ELSE IF minutes <= 120 THEN 2 ELSE IF minutes <= 180 THEN 3 ELSE 4

\* moving to dest today still lets the trip spend its last EndDwell days in the
\* end city: the end city is entered on day num_days - EndDwell, another city
\* leaves enough days to travel on to the end city
DwellStillMet(dest) ==
    IF dest = frame.end_distance
    THEN frame.day_index = call.num_days - EndDwell
    ELSE DaysNeeded(dest, frame.end_distance) <= (call.num_days - frame.day_index - 1) - (EndDwell - 1)

\* dest qualifies as the next city of the day the loop is about to process
Qualifies(dest) ==
    /\ dest \in GraphCities \ {frame.current_distance_city}
    /\ LegMinutes(frame.current_distance_city, dest) <= 240
    /\ dest \in frame.visited_cities => dest = frame.end_distance
    /\ EligibleInSeason(frame.available_pois[CITY_DISTANCE_TO_POI[dest]]) # {}
    /\ DwellStillMet(dest)

StayStep ==
    /\ frame.pc = "loop" /\ frame'.pc = "loop"
    /\ Len(frame'.day_plans) = Len(frame.day_plans) + 1
    /\ LastDay(frame').distance_city = frame.current_distance_city
    /\ frame'.current_distance_city = frame.current_distance_city

\* C20: a day in an intermediate city whose incoming leg was 180 minutes or
\* less, with no sport POI and no unmet target-stay quota, is never followed
\* by a stay in that city: the long-travel trigger needs a leg above 180.
C20_LongTravelStrict ==
    [][ (/\ StayStep
         /\ frame.current_distance_city # frame.end_distance
         /\ \A poi \in Range(LastDay(frame').pois) : ~has_label(poi, "sport")
         /\ ~(call.num_days > 10
              /\ frame.visit_counts[frame.current_distance_city] + 1 < frame.target_stay_days))
        => frame.travel_minutes_prev > 180 ]_vars

\* ---- the selector's ranking
RECURSIVE SumOver(_, _)
\* the sum of weight[x] over the POIs x of a set
SumOver(subset, weight) ==
    IF subset = {} THEN 0
    ELSE LET x == CHOOSE x \in subset : TRUE
         IN  weight[x] + SumOver(subset \ {x}, weight)

Candidates == Range(activity_info_of(sel.pois, sel.preference_weights, sel.season))
SubsetTu(subset) == SumOver(subset, [poi \in subset |-> _activity_time_units(poi)])
FitsBudget(subset) == SubsetTu(subset) <= 8 - sel.travel_tu
PairwiseDissimilar(subset) == \A a, b \in subset : a # b => ~_are_similar(a, b)

\* the ranking key of the spec, computed on a set of POIs
SubsetKey(subset) ==
    LET total == sel.travel_tu + SubsetTu(subset)
    IN  << IF 6 <= total /\ total <= 8 THEN 1 ELSE 0,
           total,
           SumOver(subset, [poi \in subset |->
               weight_of(sel.preference_weights, _primary_label(poi))]),
           0 - SumOver(subset, [poi \in subset |-> _season_score(poi, sel.season)]) >>

\* C21: the POIs returned by select_pois_for_day are distinct candidates, and no
\* subset of the candidates (the empty one included) that fits the remaining TU
\* budget and holds no similar pair has a greater lexicographic key (in the
\* band [6,8], total TU with travel, summed preference weight, lower summed
\* season rank); the result is empty only when no candidate fits the budget.
C21_MaximalKey ==
    SelectReturned =>
        LET result == Range(sel.result)
        IN  /\ Cardinality(result) = Len(sel.result)
            /\ result \subseteq Candidates
            /\ \A subset \in SUBSET Candidates :
                  (FitsBudget(subset) /\ PairwiseDissimilar(subset))
                      => ~KeyGreater(SubsetKey(subset), SubsetKey(result))
            /\ sel.result = <<>> => \A poi \in Candidates : ~FitsBudget({poi})

C21_Witness ==
    /\ SelectReturned
    /\ Len(sel.result) >= 2
    /\ \E subset \in SUBSET Candidates :
          /\ subset # {}
          /\ FitsBudget(subset) /\ PairwiseDissimilar(subset)
          /\ SubsetKey(subset)[1] = SubsetKey(Range(sel.result))[1]
          /\ SubsetKey(subset)[2] = SubsetKey(Range(sel.result))[2]
          /\ SubsetKey(subset)[3] < SubsetKey(Range(sel.result))[3]

\* ---- eligibility
HasPreferredReturned == sel.status = "returned" /\ sel.op = "has_preferred_pois"

\* the eligibility rule of the spec, from the POI's labels and the weight vector
CarriesPositive(poi) ==
    \E category \in poi.labels :
        category \in DOMAIN sel.preference_weights /\ sel.preference_weights[category] > 0
CarriesZeroOrAbsent(poi) ==
    \E category \in poi.labels :
        \/ category \notin DOMAIN sel.preference_weights
        \/ sel.preference_weights[category] = 0

\* C22: every POI returned by select_pois_for_day carries a category of
\* strictly positive weight and no category of weight zero or absent from the
\* weight vector, and has_preferred_pois answers true only for a pool that
\* holds such a POI.
C22_OnlyEligible ==
    /\ SelectReturned =>
          \A poi \in Range(sel.result) : CarriesPositive(poi) /\ ~CarriesZeroOrAbsent(poi)
    /\ (HasPreferredReturned /\ sel.found) =>
          \E poi \in Range(sel.pois) : CarriesPositive(poi) /\ ~CarriesZeroOrAbsent(poi)

C22_Witness ==
    /\ SelectReturned
    /\ sel.result # <<>>
    /\ DOMAIN sel.preference_weights # Range(CATEGORIES)
    /\ \E poi \in Range(sel.pois) :
          /\ CarriesPositive(poi)
          /\ \E category \in poi.labels : category \notin DOMAIN sel.preference_weights
    /\ \E poi \in Range(sel.pois) : ~CarriesPositive(poi)

\* ---- the size of a selection
\* C23: select_pois_for_day picks up to two POIs: for every pool, weight
\* vector, season and travel_tu the returned list has at most two elements.
C23_AtMostTwo ==
    SelectReturned => Len(sel.result) <= 2

\* ---- the shortest-path tables
Constructed == planner._graph # <<>>

\* C24: after construction, for every origin and both weight channels, the
\* shortest-path table maps each city to the least summed weight over the
\* routes of finite-weight edges from the origin to it: 0 for the origin
\* itself, infinity for a city that no such route reaches.
C24_ShortestPathTables ==
    Constructed =>
        \A origin \in GraphCities :
            /\ DOMAIN planner._shortest_km[origin] = GraphCities
            /\ DOMAIN planner._shortest_minutes[origin] = GraphCities
            /\ planner._shortest_km[origin][origin] = 0
            /\ planner._shortest_minutes[origin][origin] = 0
            /\ \A city \in GraphCities :
                /\ planner._shortest_km[origin][city] = RouteCost(origin, city, "distance_km")
                /\ planner._shortest_minutes[origin][city] = RouteCost(origin, city, "duration_minutes")

C24_Witness ==
    /\ Constructed
    /\ planner.distance_path # <<>>
    /\ \E origin, via, city \in GraphCities :
          \* the quickest route goes through a third city, the shortest is direct
          /\ planner._shortest_minutes[origin][city] = 60
          /\ EdgeWeight(origin, city, "duration_minutes") = 100
          /\ planner._shortest_km[origin][city] = 30
          /\ EdgeWeight(origin, via, "distance_km") = 100
          /\ planner._shortest_km[city][origin] >= Inf

\* ---- edges the distance file does not vouch for
\* the file has a record for a -> b with status OK and a value in the channel
Usable(a, b, weight_key) ==
    /\ a \in DOMAIN planner.distance_path
    /\ b \in DOMAIN planner.distance_path[a]
    /\ planner.distance_path[a][b].status = "OK"
    /\ planner.distance_path[a][b][weight_key] # Null

\* C25: after construction an edge whose record is absent, has a status other
\* than OK or lacks a value has infinite weight in the planner's graph, every
\* edge with status OK and a value keeps that value, and no travel leg of a
\* returned itinerary runs over an edge without an OK record.
C25_FailedEdgesAreInfinite ==
    Constructed =>
        /\ \A a, b \in GraphCities : \A weight_key \in {"distance_km", "duration_minutes"} :
              IF Usable(a, b, weight_key)
              THEN EdgeWeight(a, b, weight_key) = planner.distance_path[a][b][weight_key]
              ELSE EdgeWeight(a, b, weight_key) >= Inf
        /\ Returned =>
              \A i \in DOMAIN Itinerary :
                  Itinerary[i].travel_minutes > 0 =>
                      \E a \in GraphCities :
                          /\ _display_name(a) = Itinerary[i].travel_from
                          /\ Usable(a, CityOf(i), "duration_minutes")

\* ---- POIs used once
IdsOf(pois) == {pois[k].identifier : k \in DOMAIN pois}

\* C26: at every point of a run, and so in the returned itinerary, no POI
\* identifier appears in the POI lists of two different days, and no pool of
\* the run still offers a POI listed in a day emitted so far.
C26_NoPoiTwice ==
    /\ \A i, j \in DOMAIN frame.day_plans :
          i # j => IdsOf(frame.day_plans[i].pois) \cap IdsOf(frame.day_plans[j].pois) = {}
    /\ \A i \in DOMAIN frame.day_plans : \A poi_city \in DOMAIN frame.available_pois :
          IdsOf(frame.day_plans[i].pois) \cap IdsOf(frame.available_pois[poi_city]) = {}

C26_Witness ==
    /\ Returned
    /\ StartCity = EndCity
    /\ NumBlocks(StartCity) = 2
    /\ Itinerary[1].pois # <<>>
    /\ Itinerary[Len(Itinerary)].pois # <<>>
    /\ \E i \in 2..Len(Itinerary) : CityOf(i) = CityOf(i - 1) /\ Itinerary[i].pois # <<>>
    /\ \E i \in DOMAIN Itinerary : Rewritten(Itinerary[i])

\* ---- the first day
\* C27: in every returned itinerary the first DayPlan is at the resolved start
\* city, with no city travelled from and zero travel minutes.
C27_FirstDayAtStart ==
    Returned =>
        /\ CityOf(1) = StartCity
        /\ Itinerary[1].travel_from = None
        /\ Itinerary[1].travel_minutes = 0

\* ---- the legs of an itinerary
\* C28: in every returned itinerary, for every day d >= 2: when the day's city
\* differs from the city of day d-1, travel_from names the city of day d-1, a
\* direct edge of at most 240 minutes leads from it to the day's city and
\* travel_minutes is that edge's duration; when the city is the same,
\* travel_minutes is 0.
C28_LegsMatchDays ==
    Returned =>
        \A d \in 2..Len(Itinerary) :
            IF CityOf(d) # CityOf(d - 1)
            THEN /\ Itinerary[d].travel_from = _display_name(CityOf(d - 1))
                 /\ EdgeWeight(CityOf(d - 1), CityOf(d), "duration_minutes") <= 240
                 /\ Itinerary[d].travel_minutes = EdgeWeight(CityOf(d - 1), CityOf(d), "duration_minutes")
            ELSE Itinerary[d].travel_minutes = 0

\* ---- the season of the POIs
\* C29: for a run with a season, every POI of the returned itinerary lists
\* that season, so evaluate_itinerary with the same season reports no POI out
\* of season.
C29_ItineraryInSeason ==
    (Returned /\ call.season # None) =>
        /\ \A i \in DOMAIN Itinerary : \A poi \in Range(Itinerary[i].pois) : Lists(poi, call.season)
        /\ \A k \in DOMAIN hard_violations(Itinerary, call.start_city, call.end_city, 8, call.season) :
              hard_violations(Itinerary, call.start_city, call.end_city, 8, call.season)[k]
                  # "POI out of season"

\* ---- what leaves the pools
\* the identifiers a pool has lost since the snapshot taken before the loop
MissingFromPools ==
    UNION {IdsOf(pois_for_city(datastore[poi_city], call.season))
              \ IdsOf(frame.available_pois[poi_city])
            : poi_city \in DOMAIN datastore \cap DOMAIN frame.available_pois}
ListedSoFar == UNION {IdsOf(frame.day_plans[i].pois) : i \in DOMAIN frame.day_plans}

\* C30: at every point of a run the POIs missing from the pools, relative to
\* the initial snapshot, are exactly the POIs listed in the days emitted so
\* far, also after a low-TU rewrite of the day.
C30_PoolsLoseOnlyListedPois ==
    frame.pc \in {"loop", "returned"} => MissingFromPools = ListedSoFar

====
